---- MODULE Spec2Model ----
(***************************************************************************)
(* Model of the vocab trainer's memory model (data/memory/memory.mts),     *)
(* its priority scheduler (data/memory/memory.priority.mts) and the study  *)
(* session (src/modes/studyMode.mts).                                      *)
(*                                                                         *)
(* Numbers.  The program computes in IEEE doubles; the model computes in   *)
(* fixed point, always rounding down:                                      *)
(*   strength                 micro-days        (1 day  = 1000000)         *)
(*   difficulty, answerScore, speedScore, streakBonus, answerQuality       *)
(*                            thousandths       (1.0    = 1000)            *)
(*   daysSinceLastReview, clock, memoryLastReviewed                        *)
(*                            ticks of 1/10000 day (1 day = 10000,         *)
(*                            1 tick = 8640 ms)                            *)
(*   answerTime, reactionTime, charTime          milliseconds              *)
(*   priority                 millionths        (1.0    = 1000000)         *)
(* Math.tanh, Math.exp and Math.log1p are replaced by monotone fixed-point *)
(* approximations (Tanh, ExpNeg, Log1p below).                             *)
(***************************************************************************)
EXTENDS Integers, Sequences, FiniteSets, TLC

(***************************************************************************)
(* Program constants (memory.mts)                                          *)
(***************************************************************************)
MS_IN_TICK == 8640
TICKS_IN_DAY == 10000
BASE_COGNITIVE_REACTION_TIME == 250
CHAR_REACTION_TIME == 20
EXPECTED_SPEED_MULTIPLIER == 15
ANSWER_SPEED_WEIGHT == 300
DIFFICULTY_CORRECTION_WEIGHT == 100
MIN_STRENGTH == 1000000
DEFAULT_STRENGTH == MIN_STRENGTH
MIN_DIFFICULTY == 1000
MAX_DIFFICULTY == 10000
DEFAULT_DIFFICULTY == 2000
MIN_ANSWER_QUALITY == 0
MAX_ANSWER_QUALITY == 2000
MIN_SPEED_SCORE == 0
MIN_STREAK_THRESHOLD == 1
STREAK_BONUS_WEIGHT == 200
\* the literal 0.11 (days) of the same-day guard, in ticks
SAME_DAY_WINDOW == 1100

\* enum AnswerScore
VERY_KNOW == 1500
KNOW == 1000
CLUE == 500
CLUES == 200
NO == 0
AnswerScore == {VERY_KNOW, KNOW, CLUE, CLUES, NO}

(***************************************************************************)
(* Utilities                                                               *)
(***************************************************************************)
Max(a, b) == IF a >= b THEN a ELSE b
Min(a, b) == IF a <= b THEN a ELSE b

\* clamp({x, min}) : only the lower bound is given
clampMin(x, min) == Max(min, x)

\* clamp({x, min, max})
clamp(x, min, max) == Min(max, Max(min, x))

\* Math.tanh on z >= 0 (thousandths): the Pade approximant
\* x(27 + x^2)/(27 + 9x^2), which is increasing and reaches 1 at x = 3,
\* where the model saturates as the double does for large arguments.
Tanh(z) ==
  IF z >= 3000 THEN 1000
  ELSE LET c == z \div 10
       IN (10 * c * (270000 + c * c)) \div (270000 + 9 * c * c)

\* boundedRescaleTanh(x, k) with the default a = -1, b = 1: m = 0, r = 1
boundedRescaleTanh(x, k) == Tanh((k * x) \div 1000)

(***************************************************************************)
(* Memory model                                                            *)
(***************************************************************************)
getSpeedScore(itemLength, answerTime, reactionTime, charTime, expectedSpeedMultiplier) ==
  IF answerTime < reactionTime THEN 0
  ELSE LET expectedTime == reactionTime + charTime * itemLength
           speedRatio == (expectedSpeedMultiplier * expectedTime * 1000) \div answerTime
           rawScore == speedRatio - 1000
           positiveScore == clampMin(rawScore, MIN_SPEED_SCORE)
       IN boundedRescaleTanh(positiveScore, 500)

getStreakBonus(currentStreak, streakBonusThreshold) ==
  IF currentStreak < streakBonusThreshold THEN 0
  ELSE LET adjustedStreak == currentStreak - streakBonusThreshold
       IN boundedRescaleTanh(adjustedStreak * 1000, 400)

getAnswerQuality(answerScore, speedScore, speedWeight, bonus, bonusWeight) ==
  LET answerQuality == answerScore + (speedWeight * speedScore) \div 1000
                                   + (bonusWeight * bonus) \div 1000
  IN clamp(answerQuality, MIN_ANSWER_QUALITY, MAX_ANSWER_QUALITY)

\* getStrength with the forgetting penalty left unclamped
getStrength_unclampedPenalty(answerQuality, currentStrength, currentDifficulty, daysSinceLastReview) ==
  IF answerQuality = 0
  THEN (currentStrength * 3) \div 10
  ELSE clampMin(currentStrength
                + ((answerQuality * daysSinceLastReview) \div currentDifficulty) * 100,
                MIN_STRENGTH)

\* getStrength without the forgetting-penalty branch
getStrength_noPenalty(answerQuality, currentStrength, currentDifficulty, daysSinceLastReview) ==
  clampMin(currentStrength
           + ((answerQuality * daysSinceLastReview) \div currentDifficulty) * 100,
           MIN_STRENGTH)

\* newStrength = currentStrength + answerQuality * (days / currentDifficulty)
getStrength(answerQuality, currentStrength, currentDifficulty, daysSinceLastReview) ==
  IF answerQuality = 0
  THEN clampMin((currentStrength * 3) \div 10, MIN_STRENGTH)
  ELSE LET p == answerQuality * daysSinceLastReview
           growth == (p \div currentDifficulty) * 100
                     + ((p % currentDifficulty) * 100) \div currentDifficulty
           newStrength == currentStrength + growth
       IN clampMin(newStrength, MIN_STRENGTH)

\* newDifficulty = currentDifficulty - correctionWeight * (answerQuality - 1)
getDifficulty(currentDifficulty, answerQuality, correctionWeight) ==
  LET newDifficulty ==
        (currentDifficulty * 1000 - correctionWeight * (answerQuality - 1000)) \div 1000
  IN clamp(newDifficulty, MIN_DIFFICULTY, MAX_DIFFICULTY)

\* The value getNewState yields: its return value, or the Error it throws.
Returned(newStrength, newDifficulty, newStreak) ==
  [threw |-> FALSE, newStrength |-> newStrength,
   newDifficulty |-> newDifficulty, newStreak |-> newStreak]

Thrown == [threw |-> TRUE, newStrength |-> 0, newDifficulty |-> 0, newStreak |-> 0]

\* lines 473-474: non-positive strength / difficulty are coerced to the defaults
\* (first a variant: only a strength of exactly 0 is taken for a cold start)
coerceStrength_zeroOnly(currentStrength) ==
  IF currentStrength = 0 THEN DEFAULT_STRENGTH ELSE currentStrength

coerceStrength(currentStrength) ==
  IF currentStrength <= 0 THEN DEFAULT_STRENGTH ELSE currentStrength

coerceDifficulty(currentDifficulty) ==
  IF currentDifficulty <= 0 THEN DEFAULT_DIFFICULTY ELSE currentDifficulty

\* nextStreak that increments only above KNOW
nextStreak_aboveKnow(answerScore, currentStreak) ==
  IF answerScore > 1000 THEN currentStreak + 1 ELSE 0

\* line 476
nextStreak(answerScore, currentStreak) ==
  IF answerScore >= 1000 THEN currentStreak + 1 ELSE 0

\* sameDayGuard with the window's end excluded
sameDayGuard_strictWindow(daysSinceLastReview, currentStrength, currentDifficulty) ==
  /\ daysSinceLastReview < SAME_DAY_WINDOW
  /\ (currentStrength # DEFAULT_STRENGTH \/ currentDifficulty # DEFAULT_DIFFICULTY)

\* sameDayGuard without the exemption of the pristine state
sameDayGuard_noFirstReview(daysSinceLastReview, currentStrength, currentDifficulty) ==
  daysSinceLastReview <= SAME_DAY_WINDOW

\* lines 479-483: "an immediate review and not the first review", tested on the
\* coerced strength and difficulty
sameDayGuard(daysSinceLastReview, currentStrength, currentDifficulty) ==
  /\ daysSinceLastReview <= SAME_DAY_WINDOW
  /\ (currentStrength # DEFAULT_STRENGTH \/ currentDifficulty # DEFAULT_DIFFICULTY)

\* variant: speed plays a role whatever the answer score
speedCounts_always(answerScore) == TRUE

\* "Speed plays role only if the answer is completely correct"
speedCounts(answerScore) == answerScore >= 1000

\* the streak bonus is earned by a correct answer a day or more after the
\* last review
streakBonusCounts(answerScore, daysSinceLastReview) ==
  answerScore >= 1000 /\ daysSinceLastReview >= TICKS_IN_DAY

\* variant: only a negative length is refused
lengthRefused_negativeOnly(itemLength) == itemLength < 0

\* the condition of "Length must be greater than zero."
lengthRefused(itemLength) == itemLength <= 0

getNewState(answerScore, answerTime, itemLength, strength, daysSinceLastReview, difficulty, reactionTime, charTime, speedWeight, correctionWeight, expectedSpeedMultiplier, currentStreak, streakBonusThreshold, bonusWeight) ==
  IF lengthRefused(itemLength) THEN Thrown
  ELSE
    LET currentStrength == coerceStrength(strength)
        currentDifficulty == coerceDifficulty(difficulty)
        newStreak == nextStreak(answerScore, currentStreak)
    IN
    IF sameDayGuard(daysSinceLastReview, currentStrength, currentDifficulty)
    THEN Returned(currentStrength, currentDifficulty, currentStreak)
    ELSE
      LET speedScore ==
            IF speedCounts(answerScore)
            THEN getSpeedScore(itemLength, answerTime, reactionTime, charTime,
                               expectedSpeedMultiplier)
            ELSE 0
          streakBonus ==
            IF streakBonusCounts(answerScore, daysSinceLastReview)
            THEN getStreakBonus(currentStreak, streakBonusThreshold)
            ELSE 0
          answerQuality ==
            getAnswerQuality(answerScore, speedScore, speedWeight, streakBonus, bonusWeight)
          newDifficulty == getDifficulty(currentDifficulty, answerQuality, correctionWeight)
          newStrength ==
            getStrength(answerQuality, currentStrength, currentDifficulty, daysSinceLastReview)
      IN Returned(newStrength, newDifficulty, newStreak)

\* msSinceLastReview / MS_IN_DAY is passed in ticks (see the header)
getNewStateWithDefaults(answerScore, answerTime, itemLength, strength, ticksSinceLastReview, difficulty, streak) ==
  getNewState(answerScore, answerTime, itemLength, strength, ticksSinceLastReview,
              difficulty, BASE_COGNITIVE_REACTION_TIME, CHAR_REACTION_TIME,
              ANSWER_SPEED_WEIGHT, DIFFICULTY_CORRECTION_WEIGHT,
              EXPECTED_SPEED_MULTIPLIER, streak, MIN_STREAK_THRESHOLD,
              STREAK_BONUS_WEIGHT)

(***************************************************************************)
(* Forgetting probability and priority (memory.mts, memory.priority.mts)   *)
(***************************************************************************)
RECURSIVE Log2Floor(_)
\* the k with 2^k <= n < 2^(k+1), n >= 1
Log2Floor(n) == IF n < 2 THEN 0 ELSE 1 + Log2Floor(n \div 2)

\* Math.exp(-x), x >= 0 in thousandths, result in millionths:
\* 2^(-x/ln 2), linear between consecutive powers of two.  It is
\* non-increasing and, like the double, reaches exactly 0 for large x
\* (here from x/ln 2 >= 20, in doubles 1 - exp(-x) is exactly 1 from x = 37).
ExpNeg(x) ==
  LET y == (x * 1000) \div 693
      k == y \div 1000
      f == y % 1000
  IN IF k >= 20 THEN 0 ELSE (1000000 - 500 * f) \div (2 ^ k)

\* Math.log1p(x), x >= 0 in thousandths, result in millionths:
\* ln 2 * log2(1 + x), linear between consecutive powers of two.
Log1p(x) ==
  LET y == 1000 + x
      k == Log2Floor(y \div 1000)
      base == (2 ^ k) * 1000
  IN 1000 * (693 * k + (693 * (y - base)) \div base)

\* (daysSinceLastReview * difficulty) / safeDenom(strength), in thousandths.
\* safeDenom replaces a strength nearer to 0 than eps = 1e-8 (in the model:
\* strength = 0) by eps; otherwise the strength is taken in ticks of a day.
decayExponent(strength, difficulty, daysSinceLastReview) ==
  IF strength = 0 THEN daysSinceLastReview * difficulty * 10000
  ELSE IF strength \div 100 = 0
       THEN (daysSinceLastReview * difficulty * 100) \div strength
       ELSE (daysSinceLastReview * difficulty) \div (strength \div 100)

\* variant: the recall probability returned
getForgetProbability_recall(strength, difficulty, daysSinceLastReview) ==
  ExpNeg(decayExponent(strength, difficulty, daysSinceLastReview))

getForgetProbability(strength, difficulty, daysSinceLastReview) ==
  LET recallProbability == ExpNeg(decayExponent(strength, difficulty, daysSinceLastReview))
  IN 1000000 - recallProbability

getLogOverdueSignal(strength, difficulty, daysSinceLastReview) ==
  Log1p(decayExponent(strength, difficulty, daysSinceLastReview))

\* calculatePriority(item) at Date.now() = now: the priority it attaches
priorityOf(item, now) ==
  LET daysSinceLastReview == now - item.memoryLastReviewed
      strength == item.memoryStrength
      difficulty == item.memoryDifficulty
      priority == getForgetProbability(strength, difficulty, daysSinceLastReview)
  IN IF priority >= 1000000
     THEN priority + getLogOverdueSignal(strength, difficulty, daysSinceLastReview)
     ELSE priority

\* { ...item, priority }
calculatePriority(item, now) ==
  [word |-> item.word,
   memoryStrength |-> item.memoryStrength,
   memoryDifficulty |-> item.memoryDifficulty,
   memoryStreak |-> item.memoryStreak,
   memoryLastReviewed |-> item.memoryLastReviewed,
   priority |-> priorityOf(item, now)]

\* Array.prototype.sort((a, b) => b.priority - a.priority) is stable: an
\* element goes behind every element whose priority is not smaller.
RECURSIVE insertSorted(_, _)
insertSorted(sorted, x) ==
  IF sorted = << >> THEN << x >>
  ELSE IF Head(sorted).priority >= x.priority
       THEN << Head(sorted) >> \o insertSorted(Tail(sorted), x)
       ELSE << x >> \o sorted

RECURSIVE sortDescending(_)
sortDescending(items) ==
  IF items = << >> THEN << >>
  ELSE insertSorted(sortDescending(SubSeq(items, 1, Len(items) - 1)), items[Len(items)])

\* variant: the priorities attached, the order left as it was
sortByPriority_unsorted(items, now) ==
  [k \in 1..Len(items) |-> calculatePriority(items[k], now)]

\* variant: the first item is left out of what is sorted
sortByPriority_withoutFirst(items, now) ==
  LET itemsWithPriority == [k \in 1..(Len(items) - 1) |-> calculatePriority(items[k + 1], now)]
  IN sortDescending(itemsWithPriority)

sortByPriority(items, now) ==
  LET itemsWithPriority == [k \in 1..Len(items) |-> calculatePriority(items[k], now)]
  IN sortDescending(itemsWithPriority)

(***************************************************************************)
(* One item under repeated review: the loop of run() in the memory model's *)
(* scenario runner, which feeds every result of getNewStateWithDefaults    *)
(* back as the next current state (as the study session does through the   *)
(* repository).                                                            *)
(***************************************************************************)
VARIABLES
  stored,     \* the item's memoryStrength, memoryDifficulty, memoryStreak
  wordLength, \* the item's length
  lastCall,   \* arguments and result of the latest getNewState call
  nReviews,   \* number of calls made
  genuine     \* history: some call so far was not suppressed by the guard

memVars == << stored, wordLength, lastCall, nReviews, genuine >>

(***************************************************************************)
(* The repository and the study session (repository.mts, studyMode.mts)    *)
(***************************************************************************)
VARIABLES
  clock,        \* Date.now(), in ticks
  cache,        \* VocabRepository.cache: the items in position order
  file,         \* what the data store holds on disk
  pc,           \* where the session stands: idle, begin, reviewing, completed, quit
  message,      \* the notice shown last
  sessionWords, \* startStudySession: the working set, each with its priority
  i,            \* startStudySession: loop index (0-based)
  clueLevel,    \* reviewWord: clue level
  startedAt,    \* reviewWord: Date.now() when the word was first shown
  stats,        \* startStudySession: StudyStats
  selection     \* startStudySession: its arguments, until the loop starts (they
                \* are not read after the working set is chosen)

sessionVars == << clock, cache, file, pc, message, sessionWords, i,
                  clueLevel, startedAt, stats, selection >>

(***************************************************************************)
(* The study session logger (studySessionLogger.mts)                       *)
(* An optional field of the log is << >> while undefined and << v >> once  *)
(* set.                                                                    *)
(***************************************************************************)
VARIABLES
  log,           \* createStudySessionLogger: the log object held by the closure
  logFile,       \* the document written by finalize, << >> while none is written
  finalizeCalls  \* number of finalize calls made on the logger

logVars == << log, logFile, finalizeCalls >>

\* createStudySessionLogger: the log as constructed
NewLog ==
  [sortResult |-> << >>, reviews |-> << >>, endedAt |-> << >>, stats |-> << >>,
   outcome |-> << >>]

\* no logger operation called
LogAbsent ==
  /\ log = NewLog
  /\ logFile = << >>
  /\ finalizeCalls = 0

(***************************************************************************)
(* One item whose priority is computed again and again while time passes   *)
(* (memory.priority.mts: calculatePriority)                                *)
(***************************************************************************)
VARIABLES
  probe  \* the item's strength and difficulty, the days since its last review
         \* and what getForgetProbability and calculatePriority return for them

probeVars == << probe >>

\* calculatePriority not called
ProbeAbsent == probe = << >>

(***************************************************************************)
(* Overdue decay (decayStore.mts, checkAndApplyOverdueDecay and            *)
(* applyMultipleDaysDecay of the decay-based study mode, decay.mts).       *)
(* Time is counted in quarters of a day, a date is a day number.           *)
(***************************************************************************)
VARIABLES
  utcNow,      \* the time of the system clock, in quarter days of UTC
  tzOffset,    \* the local time zone: local time minus UTC, in quarter days
  decayFile,   \* the decay file: << >> while missing, << lastDecayDate >> otherwise
  strengths,   \* memorizationStrength of the repository's words
  lastCheck    \* the latest checkAndApplyOverdueDecay: what it did, and when

decayVars == << utcNow, tzOffset, decayFile, strengths, lastCheck >>

\* checkAndApplyOverdueDecay not called yet
NoCheck == [outcome |-> "none", at |-> 0, localDay |-> 0, checks |-> 0]

\* no decay store
DecayAbsent ==
  /\ utcNow = 0
  /\ tzOffset = 0
  /\ decayFile = << >>
  /\ strengths = << >>
  /\ lastCheck = << >>

(***************************************************************************)
(* The migration scripts (db/migrations/migrate.mts, rollback.mts).        *)
(* A file's content is the sequence of its entries; a file is << >> while  *)
(* missing and << content >> otherwise.                                    *)
(***************************************************************************)
VARIABLES
  dataFile,  \* the content of the file at VOCAB_DATA_PATH
  backups,   \* the files of the backup directory, by name
  run        \* the script running or run last: its kind, where it stands,
             \* its flags and what it has read and computed

migVars == << dataFile, backups, run >>

\* no script started
NoRun ==
  [kind |-> "none", pc |-> "exited", dryRun |-> FALSE, raw |-> << >>, next |-> << >>,
   backupPath |-> [kind |-> "none", stamp |-> 0], runs |-> 0]

\* no data file to migrate
MigAbsent ==
  /\ dataFile = << >>
  /\ backups = << >>
  /\ run = << >>

(***************************************************************************)
(* The repository called directly (repository.mts: create, update, delete) *)
(***************************************************************************)
VARIABLES
  lastResult  \* the Result returned by the latest create, update or delete, with
              \* what save returned to it (<< >> while save was not called)

repoVars == << lastResult >>

\* no operation called yet
NoResult == [op |-> "none", success |-> FALSE, found |-> << >>, saved |-> << >>]

\* the repository's operations are not called directly
RepoAbsent == lastResult = << >>

otherVars == << logVars, probeVars, decayVars, migVars, repoVars >>

OtherAbsent ==
  /\ LogAbsent
  /\ ProbeAbsent
  /\ DecayAbsent
  /\ MigAbsent
  /\ RepoAbsent

\* the variables a specification of one component leaves alone
exceptLog == << memVars, sessionVars, probeVars, decayVars, migVars, repoVars >>
exceptProbe == << memVars, sessionVars, logVars, decayVars, migVars, repoVars >>
exceptDecay == << memVars, sessionVars, logVars, probeVars, migVars, repoVars >>
exceptMig == << memVars, sessionVars, logVars, probeVars, decayVars, repoVars >>
exceptRepo == << memVars, logVars, probeVars, decayVars, migVars,
                 clock, pc, message, sessionWords, i, clueLevel, startedAt, stats,
                 selection >>


\* bounds of the exploration
MaxReviews == 2

\* inputs
InitStrengths == {0, MIN_STRENGTH, 3500000}
InitDifficulties == {0, MIN_DIFFICULTY, DEFAULT_DIFFICULTY, MAX_DIFFICULTY}
InitStreaks == {0, 3}
WordLengths == {0, 5}
AnswerTimes == {100, 1000, 60000}
DaysSince == {0, 1, SAME_DAY_WINDOW, SAME_DAY_WINDOW + 1, TICKS_IN_DAY}

NoCall ==
  [made |-> FALSE, answerScore |-> 0, answerTime |-> 0, itemLength |-> 0,
   strength |-> 0, difficulty |-> 0, streak |-> 0, days |-> 0, result |-> Thrown]

NoStats ==
  [totalWords |-> 0, wordsReviewed |-> 0, veryKnowCount |-> 0, knowCount |-> 0,
   clueCount |-> 0, cluesCount |-> 0, noCount |-> 0]

\* startStudySession not called
NoSelection ==
  [startGiven |-> FALSE, maxWords |-> 0, startIndex |-> 0, endGiven |-> FALSE, endIndex |-> 0]

\* no repository and no session
SessionAbsent ==
  /\ clock = 0
  /\ cache = << >>
  /\ file = << >>
  /\ pc = "idle"
  /\ message = ""
  /\ sessionWords = << >>
  /\ i = 0
  /\ clueLevel = 0
  /\ startedAt = 0
  /\ stats = << >>
  /\ selection = << >>

MemInit ==
  /\ SessionAbsent
  /\ OtherAbsent
  /\ stored \in [memoryStrength : InitStrengths,
                  memoryDifficulty : InitDifficulties,
                  memoryStreak : InitStreaks]
  /\ wordLength \in WordLengths
  /\ lastCall = NoCall
  /\ nReviews = 0
  /\ genuine = FALSE

\* one iteration of the loop: a call and the feedback of its result; an
\* Error thrown by getNewState ends the run
MemReview(answerScore, answerTime, days) ==
  /\ nReviews < MaxReviews
  /\ ~(lastCall.made /\ lastCall.result.threw)
  /\ LET result == getNewStateWithDefaults(answerScore, answerTime, wordLength,
                                           stored.memoryStrength, days,
                                           stored.memoryDifficulty, stored.memoryStreak)
     IN /\ lastCall' = [made |-> TRUE, answerScore |-> answerScore,
                        answerTime |-> answerTime, itemLength |-> wordLength,
                        strength |-> stored.memoryStrength,
                        difficulty |-> stored.memoryDifficulty,
                        streak |-> stored.memoryStreak, days |-> days,
                        result |-> result]
        /\ stored' = IF result.threw THEN stored
                     ELSE [memoryStrength |-> result.newStrength,
                           memoryDifficulty |-> result.newDifficulty,
                           memoryStreak |-> result.newStreak]
        /\ genuine' = (genuine \/ (~result.threw /\
                          ~sameDayGuard(days, coerceStrength(stored.memoryStrength),
                                        coerceDifficulty(stored.memoryDifficulty))))
  /\ nReviews' = nReviews + 1
  /\ UNCHANGED wordLength
  /\ UNCHANGED << sessionVars, otherVars >>

MemNext ==
  \E answerScore \in AnswerScore, answerTime \in AnswerTimes, days \in DaysSince :
    MemReview(answerScore, answerTime, days)

vars == << memVars, sessionVars, otherVars >>

SpecMem == MemInit /\ [][MemNext]_vars

(***************************************************************************)
(* The study session                                                       *)
(***************************************************************************)
\* bounds of the exploration
MaxItems == 2
MaxTicks == 1

\* startStudySession's default maxWords, also used by configureStudySession
DEFAULT_MAX_WORDS == 20

\* the clock when the program is started: 30 days after the oldest item
StartClock == 30 * TICKS_IN_DAY

\* how far the clock may move while the operator is awaited: a moment, or
\* more than the same-day window
LongStep == SAME_DAY_WINDOW + 100
TickSteps == {1, LongStep}

\* the number of steps that make up the time passed since the start
stepsTaken(now) == ((now - StartClock) % LongStep) + ((now - StartClock) \div LongStep)

\* the part of an answer time below one tick, in ms
SubTickMs == {1000}

\* word.word.length of word w
lengthOfWord(w) == 2 * w + 1

\* memory fields of items at the start: created 30 days ago and never
\* reviewed, created just now, or reviewed a day ago
Profiles ==
  { [memoryStrength |-> DEFAULT_STRENGTH, memoryDifficulty |-> DEFAULT_DIFFICULTY,
     memoryStreak |-> 0, memoryLastReviewed |-> 0],
    [memoryStrength |-> DEFAULT_STRENGTH, memoryDifficulty |-> DEFAULT_DIFFICULTY,
     memoryStreak |-> 0, memoryLastReviewed |-> StartClock],
    [memoryStrength |-> 3500000, memoryDifficulty |-> 1970,
     memoryStreak |-> 2, memoryLastReviewed |-> StartClock - TICKS_IN_DAY] }

Vocab(w, m) ==
  [word |-> w, memoryStrength |-> m.memoryStrength,
   memoryDifficulty |-> m.memoryDifficulty, memoryStreak |-> m.memoryStreak,
   memoryLastReviewed |-> m.memoryLastReviewed]

\* no item under the scenario runner
MemAbsent ==
  /\ stored = << >>
  /\ wordLength = 0
  /\ lastCall = << >>
  /\ nReviews = 0
  /\ genuine = FALSE

\* VocabRepository constructor: the cache is what the data store holds
Init ==
  /\ MemAbsent
  /\ OtherAbsent
  /\ clock = StartClock
  /\ \E n \in 0..MaxItems : \E f \in [1..n -> Profiles] :
       cache = [k \in 1..n |-> Vocab(k, f[k])]
  /\ file = cache
  /\ pc = "idle"
  /\ message = ""
  /\ sessionWords = << >>
  /\ i = 0
  /\ clueLevel = 0
  /\ startedAt = 0
  /\ stats = NoStats
  /\ selection = NoSelection

\* findIndexByWord: the first position holding the word, 0 for -1
findIndexByWord(c, w) ==
  IF \E k \in 1..Len(c) : c[k].word = w
  THEN CHOOSE k \in 1..Len(c) :
         c[k].word = w /\ \A j \in 1..(k - 1) : c[j].word # w
  ELSE 0

\* variant: the update leaves the streak as it was
updatedCache_withoutStreak(c, w, newStrength, newDifficulty, newStreak, lastReviewed) ==
  LET index == findIndexByWord(c, w)
  IN IF index = 0 THEN c
     ELSE [c EXCEPT ![index] =
             [word |-> w, memoryStrength |-> newStrength,
              memoryDifficulty |-> newDifficulty, memoryStreak |-> c[index].memoryStreak,
              memoryLastReviewed |-> lastReviewed]]

\* variant: the update leaves memoryLastReviewed as it was
updatedCache_keepsLastReviewed(c, w, newStrength, newDifficulty, newStreak, lastReviewed) ==
  LET index == findIndexByWord(c, w)
  IN IF index = 0 THEN c
     ELSE [c EXCEPT ![index] =
             [word |-> w, memoryStrength |-> newStrength,
              memoryDifficulty |-> newDifficulty, memoryStreak |-> newStreak,
              memoryLastReviewed |-> c[index].memoryLastReviewed]]

\* VocabRepository.update with the four memory fields: the cache it leaves
updatedCache(c, w, newStrength, newDifficulty, newStreak, lastReviewed) ==
  LET index == findIndexByWord(c, w)
  IN IF index = 0 THEN c
     ELSE [c EXCEPT ![index] =
             [word |-> w, memoryStrength |-> newStrength,
              memoryDifficulty |-> newDifficulty, memoryStreak |-> newStreak,
              memoryLastReviewed |-> lastReviewed]]

\* variant: the first maxWords positions taken, then sorted
selectTop_sliceFirst(allWords, maxWords, now) ==
  sortByPriority(SubSeq(allWords, 1, Min(maxWords, Len(allWords))), now)

\* lines 242-243: the maxWords items of highest priority
selectTop(allWords, maxWords, now) ==
  LET sortedWords == sortByPriority(allWords, now)
  IN SubSeq(sortedWords, 1, Min(maxWords, Len(sortedWords)))

\* variant: the whole repository sorted, then sliced
selectRange_sortFirst(allWords, startIndex, endGiven, endIndex, now) ==
  LET start == Max(0, startIndex - 1)
      endExclusive == IF endGiven THEN Min(Len(allWords), endIndex) ELSE Len(allWords)
  IN SubSeq(sortByPriority(allWords, now), start + 1, endExclusive)

\* lines 222-229: the slice of the position order, then sorted
selectRange(allWords, startIndex, endGiven, endIndex, now) ==
  LET start == Max(0, startIndex - 1)
      endExclusive == IF endGiven THEN Min(Len(allWords), endIndex) ELSE Len(allWords)
      rangeWords == SubSeq(allWords, start + 1, endExclusive)
  IN sortByPriority(rangeWords, now)

\* startStudySession up to "Press Enter to begin..."
startStudySession(maxWords, startGiven, startIndex, endGiven, endIndex) ==
  LET allWords == cache
      selected == IF startGiven
                  THEN selectRange(allWords, startIndex, endGiven, endIndex, clock)
                  ELSE selectTop(allWords, maxWords, clock)
  IN IF Len(allWords) = 0
     THEN /\ message' = "no words"
          /\ UNCHANGED << pc, sessionWords, i, stats, selection >>
     ELSE IF startGiven /\ Len(selected) = 0
     THEN /\ message' = "invalid range"
          /\ UNCHANGED << pc, sessionWords, i, stats, selection >>
     ELSE /\ sessionWords' = selected
          /\ stats' = [NoStats EXCEPT !.totalWords = Len(selected)]
          /\ pc' = "begin"
          /\ message' = "starting"
          /\ i' = 0
          /\ selection' = [startGiven |-> startGiven, maxWords |-> maxWords,
                            startIndex |-> IF startGiven THEN startIndex ELSE 0,
                            endGiven |-> startGiven /\ endGiven,
                            endIndex |-> IF startGiven /\ endGiven THEN endIndex ELSE 0]

\* configureStudySession, mode 1: number of words
ConfigureTop(maxWords) ==
  /\ pc = "idle"
  /\ startStudySession(IF maxWords <= 0 THEN DEFAULT_MAX_WORDS ELSE maxWords,
                       FALSE, 0, FALSE, 0)
  /\ UNCHANGED << clock, cache, file, clueLevel, startedAt >>
  /\ UNCHANGED << memVars, otherVars >>

\* configureStudySession, mode 2: range of positions
ConfigureRange(startIndex, endGiven, endIndex) ==
  /\ pc = "idle"
  /\ LET totalWords == Len(cache)
     IN IF startIndex <= 0 \/ startIndex > totalWords
        THEN /\ message' = "invalid start"
             /\ UNCHANGED << pc, sessionWords, i, stats, selection >>
        ELSE IF endGiven /\ (endIndex < startIndex \/ endIndex > totalWords)
        THEN /\ message' = "invalid end"
             /\ UNCHANGED << pc, sessionWords, i, stats, selection >>
        ELSE startStudySession(DEFAULT_MAX_WORDS, TRUE, startIndex, endGiven, endIndex)
  /\ UNCHANGED << clock, cache, file, clueLevel, startedAt >>
  /\ UNCHANGED << memVars, otherVars >>

\* reviewWord is entered for sessionWords[i]: lines 109-110
enterReviewWord ==
  /\ clueLevel' = 0
  /\ startedAt' = clock

\* "Press Enter to begin...": the loop starts with the first word
Begin ==
  /\ pc = "begin"
  /\ pc' = "reviewing"
  /\ enterReviewWord
  /\ selection' = NoSelection
  /\ UNCHANGED << clock, cache, file, message, sessionWords, i, stats >>
  /\ UNCHANGED << memVars, otherVars >>

\* time passes while the operator is awaited
Tick(d) ==
  /\ pc = "reviewing"
  /\ stepsTaken(clock + d) <= MaxTicks
  /\ clock' = clock + d
  /\ UNCHANGED << cache, file, pc, message, sessionWords, i,
                  clueLevel, startedAt, stats, selection >>
  /\ UNCHANGED << memVars, otherVars >>

\* variant: an answer given after two clues is counted as reviewed only
countAnswer_missesClues(st, answerScore) ==
  LET r == [st EXCEPT !.wordsReviewed = @ + 1]
  IN IF answerScore = VERY_KNOW THEN [r EXCEPT !.veryKnowCount = @ + 1]
     ELSE IF answerScore = KNOW THEN [r EXCEPT !.knowCount = @ + 1]
     ELSE IF answerScore = CLUE THEN [r EXCEPT !.clueCount = @ + 1]
     ELSE IF answerScore = NO THEN [r EXCEPT !.noCount = @ + 1]
     ELSE r

\* lines 271-276
countAnswer(st, answerScore) ==
  LET r == [st EXCEPT !.wordsReviewed = @ + 1]
  IN IF answerScore = VERY_KNOW THEN [r EXCEPT !.veryKnowCount = @ + 1]
     ELSE IF answerScore = KNOW THEN [r EXCEPT !.knowCount = @ + 1]
     ELSE IF answerScore = CLUE THEN [r EXCEPT !.clueCount = @ + 1]
     ELSE IF answerScore = CLUES THEN [r EXCEPT !.cluesCount = @ + 1]
     ELSE IF answerScore = NO THEN [r EXCEPT !.noCount = @ + 1]
     ELSE r

\* variant: the loop ends one item early
recordAnswer_endsEarly(answerScore, answerTime, saveOk) ==
  LET word == sessionWords[i + 1]
      now == clock
      ticksSinceLastReview == Max(0, now - word.memoryLastReviewed)
      result == getNewStateWithDefaults(answerScore, answerTime,
                                        Max(1, lengthOfWord(word.word)),
                                        word.memoryStrength, ticksSinceLastReview,
                                        word.memoryDifficulty, word.memoryStreak)
  IN /\ stats' = countAnswer(stats, answerScore)
     /\ cache' = updatedCache(cache, word.word, result.newStrength,
                              result.newDifficulty, result.newStreak, now)
     /\ file' = IF saveOk /\ findIndexByWord(cache, word.word) # 0 THEN cache' ELSE file
     /\ i' = i + 1
     /\ IF i + 2 < Len(sessionWords)
        THEN /\ pc' = "reviewing"
             /\ enterReviewWord
             /\ UNCHANGED message
        ELSE /\ pc' = "completed"
             /\ message' = "completed"
             /\ UNCHANGED << clueLevel, startedAt >>
     /\ UNCHANGED << clock, sessionWords, selection >>
     /\ UNCHANGED << memVars, otherVars >>

\* variant: the loop does not advance, the same item is presented again
recordAnswer_repeatsItem(answerScore, answerTime, saveOk) ==
  LET word == sessionWords[i + 1]
      now == clock
      ticksSinceLastReview == Max(0, now - word.memoryLastReviewed)
      result == getNewStateWithDefaults(answerScore, answerTime,
                                        Max(1, lengthOfWord(word.word)),
                                        word.memoryStrength, ticksSinceLastReview,
                                        word.memoryDifficulty, word.memoryStreak)
  IN /\ stats' = countAnswer(stats, answerScore)
     /\ cache' = updatedCache(cache, word.word, result.newStrength,
                              result.newDifficulty, result.newStreak, now)
     /\ file' = IF saveOk /\ findIndexByWord(cache, word.word) # 0 THEN cache' ELSE file
     /\ pc' = "reviewing"
     /\ enterReviewWord
     /\ UNCHANGED << clock, sessionWords, selection, i, message >>
     /\ UNCHANGED << memVars, otherVars >>

\* lines 270-301 and the loop's step: reviewWord returned answerScore and
\* answerTime for sessionWords[i]; saveOk tells whether the data store's
\* save succeeds
recordAnswer(answerScore, answerTime, saveOk) ==
  LET word == sessionWords[i + 1]
      now == clock
      ticksSinceLastReview == Max(0, now - word.memoryLastReviewed)
      result == getNewStateWithDefaults(answerScore, answerTime,
                                        Max(1, lengthOfWord(word.word)),
                                        word.memoryStrength, ticksSinceLastReview,
                                        word.memoryDifficulty, word.memoryStreak)
  IN /\ stats' = countAnswer(stats, answerScore)
     /\ cache' = updatedCache(cache, word.word, result.newStrength,
                              result.newDifficulty, result.newStreak, now)
     /\ file' = IF saveOk /\ findIndexByWord(cache, word.word) # 0 THEN cache' ELSE file
     /\ i' = i + 1
     /\ IF i + 1 < Len(sessionWords)
        THEN /\ pc' = "reviewing"
             /\ enterReviewWord
             /\ UNCHANGED message
        ELSE /\ pc' = "completed"
             /\ message' = "completed"
             /\ UNCHANGED << clueLevel, startedAt >>
     /\ UNCHANGED << clock, sessionWords, selection >>
     /\ UNCHANGED << memVars, otherVars >>

\* Date.now() - startedAt, in ms
elapsedMs(subTick) == (clock - startedAt) * MS_IN_TICK + subTick

\* the prompt of reviewWord redisplayed with nothing changed
redisplay ==
  /\ UNCHANGED sessionVars
  /\ UNCHANGED << memVars, otherVars >>

\* variant: the perfect choice accepted at every clue level
ChoosePerfect_afterHint(subTick, saveOk) ==
  /\ pc = "reviewing"
  /\ recordAnswer(VERY_KNOW, elapsedMs(subTick), saveOk)

\* choice "o"
ChoosePerfect(subTick, saveOk) ==
  /\ pc = "reviewing"
  /\ IF clueLevel > 0
     THEN redisplay
     ELSE recordAnswer(VERY_KNOW, elapsedMs(subTick), saveOk)

\* variant: the know choice scored KNOW whatever clues were shown
ChooseKnow_ignoresClues(subTick, saveOk) ==
  /\ pc = "reviewing"
  /\ recordAnswer(KNOW, elapsedMs(subTick), saveOk)

\* choice "k"
ChooseKnow(subTick, saveOk) ==
  /\ pc = "reviewing"
  /\ recordAnswer(IF clueLevel = 0 THEN KNOW ELSE IF clueLevel = 1 THEN CLUE ELSE CLUES,
                  elapsedMs(subTick), saveOk)

\* choice "n"
ChooseNo(subTick, saveOk) ==
  /\ pc = "reviewing"
  /\ recordAnswer(NO, elapsedMs(subTick), saveOk)

\* variant: the clue level wraps around after 2
ChooseHint_wrap ==
  /\ pc = "reviewing"
  /\ clueLevel' = (clueLevel + 1) % 3
  /\ UNCHANGED << clock, cache, file, pc, message, sessionWords,
                  i, startedAt, stats, selection >>
  /\ UNCHANGED << memVars, otherVars >>

\* choice "h"
ChooseHint ==
  /\ pc = "reviewing"
  /\ IF clueLevel < 2
     THEN /\ clueLevel' = clueLevel + 1
          /\ UNCHANGED << clock, cache, file, pc, message, sessionWords,
                          i, startedAt, stats, selection >>
          /\ UNCHANGED << memVars, otherVars >>
     ELSE redisplay

\* variant: quitting restores the session's items to what they were when the
\* session started
ChooseQuit_rollback ==
  /\ pc = "reviewing"
  /\ pc' = "quit"
  /\ message' = "ended early"
  /\ cache' = [k \in 1..Len(cache) |->
                IF \E j \in 1..Len(sessionWords) : sessionWords[j].word = cache[k].word
                THEN LET j == CHOOSE j \in 1..Len(sessionWords) :
                                 sessionWords[j].word = cache[k].word
                     IN Vocab(cache[k].word, sessionWords[j])
                ELSE cache[k]]
  /\ UNCHANGED << clock, file, sessionWords, i, clueLevel,
                  startedAt, stats, selection >>
  /\ UNCHANGED << memVars, otherVars >>

\* choice "q": QUIT_SESSION is thrown and caught by startStudySession
ChooseQuit ==
  /\ pc = "reviewing"
  /\ pc' = "quit"
  /\ message' = "ended early"
  /\ UNCHANGED << clock, cache, file, sessionWords, i, clueLevel,
                  startedAt, stats, selection >>
  /\ UNCHANGED << memVars, otherVars >>

\* any other input
ChooseOther ==
  /\ pc = "reviewing"
  /\ redisplay

Next ==
  \/ \E maxWords \in 0..(MaxItems + 1) : ConfigureTop(maxWords)
  \/ \E startIndex \in 0..(MaxItems + 1), endGiven \in BOOLEAN, endIndex \in 0..(MaxItems + 1) :
       ConfigureRange(startIndex, endGiven, endIndex)
  \/ Begin
  \/ \E d \in TickSteps : Tick(d)
  \/ \E subTick \in SubTickMs, saveOk \in BOOLEAN : ChoosePerfect(subTick, saveOk)
  \/ \E subTick \in SubTickMs, saveOk \in BOOLEAN : ChooseKnow(subTick, saveOk)
  \/ \E subTick \in SubTickMs, saveOk \in BOOLEAN : ChooseNo(subTick, saveOk)
  \/ ChooseHint
  \/ ChooseQuit
  \/ ChooseOther

Spec == Init /\ [][Next]_vars

(***************************************************************************)
(* The study session with an operator who does not leave an item           *)
(* unanswered for ever: the choices on which reviewWord returns or throws  *)
(* ("o" with no clue shown, "k", "n", "q") are taken eventually while an   *)
(* item is presented.                                                      *)
(***************************************************************************)
TerminalChoice ==
  \/ ChooseQuit
  \/ \E subTick \in SubTickMs, saveOk \in BOOLEAN : ChooseKnow(subTick, saveOk)
  \/ \E subTick \in SubTickMs, saveOk \in BOOLEAN : ChooseNo(subTick, saveOk)
  \/ \E subTick \in SubTickMs, saveOk \in BOOLEAN :
       clueLevel = 0 /\ ChoosePerfect(subTick, saveOk)

\* memory fields of items at the start: never reviewed, or reviewed a day ago
FairProfiles ==
  { [memoryStrength |-> DEFAULT_STRENGTH, memoryDifficulty |-> DEFAULT_DIFFICULTY,
     memoryStreak |-> 0, memoryLastReviewed |-> 0],
    [memoryStrength |-> 3500000, memoryDifficulty |-> 1970,
     memoryStreak |-> 2, memoryLastReviewed |-> StartClock - TICKS_IN_DAY] }

InitFair ==
  /\ MemAbsent
  /\ OtherAbsent
  /\ clock = StartClock
  /\ \E n \in 0..MaxItems : \E f \in [1..n -> FairProfiles] :
       cache = [k \in 1..n |-> Vocab(k, f[k])]
  /\ file = cache
  /\ pc = "idle"
  /\ message = ""
  /\ sessionWords = << >>
  /\ i = 0
  /\ clueLevel = 0
  /\ startedAt = 0
  /\ stats = NoStats
  /\ selection = NoSelection

FairSpec == InitFair /\ [][Next]_vars /\ WF_vars(TerminalChoice)

(***************************************************************************)
(* The study session on a repository whose items were reviewed a moment    *)
(* ago, in an earlier session: right now, or 0.11 days ago.                *)
(***************************************************************************)
RecentProfiles ==
  { [memoryStrength |-> 3500000, memoryDifficulty |-> 1970,
     memoryStreak |-> 2, memoryLastReviewed |-> StartClock],
    [memoryStrength |-> 3500000, memoryDifficulty |-> 1970,
     memoryStreak |-> 2, memoryLastReviewed |-> StartClock - SAME_DAY_WINDOW] }

InitRecent ==
  /\ MemAbsent
  /\ OtherAbsent
  /\ clock = StartClock
  /\ \E n \in 0..MaxItems : \E f \in [1..n -> RecentProfiles] :
       cache = [k \in 1..n |-> Vocab(k, f[k])]
  /\ file = cache
  /\ pc = "idle"
  /\ message = ""
  /\ sessionWords = << >>
  /\ i = 0
  /\ clueLevel = 0
  /\ startedAt = 0
  /\ stats = NoStats
  /\ selection = NoSelection

SpecRecent == InitRecent /\ [][Next]_vars

(***************************************************************************)
(* The repository under create, update and delete, as the add, edit and    *)
(* delete commands call them, with a data store whose save may fail.       *)
(***************************************************************************)
\* inputs
RepoWords == {1, 2}
UpdateStates == { [memoryStrength |-> 2 * DEFAULT_STRENGTH, memoryDifficulty |-> 2100,
                   memoryStreak |-> 1] }

\* create: the entry of a new word
newEntry(w, now) ==
  [word |-> w, memoryStrength |-> DEFAULT_STRENGTH, memoryDifficulty |-> DEFAULT_DIFFICULTY,
   memoryStreak |-> 0, memoryLastReviewed |-> now]

\* Array.prototype.splice(index, 1)
splice(c, index) == [k \in 1..(Len(c) - 1) |-> IF k < index THEN c[k] ELSE c[k + 1]]

\* create, update, delete: the cache is changed in place before save is called
changedCache(before, after, saved) == after

\* VocabRepository.save: what the data store holds afterwards
savedFile(before, data, saved) == IF saved THEN data ELSE before

\* VocabRepository constructor: the cache is what the data store holds,
\* nothing or one word added long ago
InitRepo ==
  /\ MemAbsent
  /\ LogAbsent
  /\ ProbeAbsent
  /\ DecayAbsent
  /\ MigAbsent
  /\ lastResult = NoResult
  /\ clock = StartClock
  /\ cache \in { << >>, << newEntry(1, 0) >> }
  /\ file = cache
  /\ pc = "idle"
  /\ message = ""
  /\ sessionWords = << >>
  /\ i = 0
  /\ clueLevel = 0
  /\ startedAt = 0
  /\ stats = NoStats
  /\ selection = NoSelection

\* VocabRepository.create
RepoCreate(w, saveOk) ==
  /\ pc = "idle"
  /\ IF findIndexByWord(cache, w) # 0
     THEN /\ lastResult' = [op |-> "create", success |-> FALSE, found |-> << TRUE >>,
                        saved |-> << >>]
          /\ UNCHANGED << cache, file >>
     ELSE /\ cache' = changedCache(cache, Append(cache, newEntry(w, clock)), saveOk)
          /\ file' = savedFile(file, Append(cache, newEntry(w, clock)), saveOk)
          /\ lastResult' = [op |-> "create", success |-> saveOk, found |-> << >>,
                        saved |-> << saveOk >>]
  /\ UNCHANGED exceptRepo

\* VocabRepository.update with the four memory fields
RepoUpdate(w, m, saveOk) ==
  LET after == updatedCache(cache, w, m.memoryStrength, m.memoryDifficulty,
                            m.memoryStreak, clock)
  IN /\ pc = "idle"
     /\ IF findIndexByWord(cache, w) = 0
        THEN /\ lastResult' = [op |-> "update", success |-> FALSE, found |-> << FALSE >>,
                           saved |-> << >>]
             /\ UNCHANGED << cache, file >>
        ELSE /\ cache' = changedCache(cache, after, saveOk)
             /\ file' = savedFile(file, after, saveOk)
             /\ lastResult' = [op |-> "update", success |-> saveOk, found |-> << TRUE >>,
                           saved |-> << saveOk >>]
     /\ UNCHANGED exceptRepo

\* VocabRepository.delete
RepoDelete(w, saveOk) ==
  LET index == findIndexByWord(cache, w)
  IN /\ pc = "idle"
     /\ IF index = 0
        THEN /\ lastResult' = [op |-> "delete", success |-> FALSE, found |-> << FALSE >>,
                           saved |-> << >>]
             /\ UNCHANGED << cache, file >>
        ELSE /\ cache' = changedCache(cache, splice(cache, index), saveOk)
             /\ file' = savedFile(file, splice(cache, index), saveOk)
             /\ lastResult' = [op |-> "delete", success |-> saveOk, found |-> << TRUE >>,
                           saved |-> << saveOk >>]
     /\ UNCHANGED exceptRepo

RepoNext ==
  \/ \E w \in RepoWords, saveOk \in BOOLEAN : RepoCreate(w, saveOk)
  \/ \E w \in RepoWords, m \in UpdateStates, saveOk \in BOOLEAN : RepoUpdate(w, m, saveOk)
  \/ \E w \in RepoWords, saveOk \in BOOLEAN : RepoDelete(w, saveOk)

SpecRepo == InitRepo /\ [][RepoNext]_vars

(***************************************************************************)
(* The logger under arbitrary calls: any sequence of recordSortResult,     *)
(* recordReview and finalize on one logger.  A review row is reduced to    *)
(* its word and its answer score; the other required numbers of a row      *)
(* behave as answerScore does.                                             *)
(***************************************************************************)
MaxLogRows == 2
MaxFinalize == 2

\* inputs
SortRows == { << >>, << [word |-> 1, priority |-> 500000] >> }
ReviewInputs == [word : {1, 2}, answerScore : {<< >>, << KNOW >>}]
LogStats == {[NoStats EXCEPT !.totalWords = 1, !.wordsReviewed = r, !.knowCount = r] : r \in 0..1}
Outcomes == {"completed", "quit"}
EndTimes == {1, 2}

\* requireNumber: the value is a finite number
requireNumberThrows(value) == value = << >>

\* buildReviewRow
buildReviewRow(input) == [word |-> input.word, answerScore |-> input.answerScore[1]]

\* no repository, no session, no item under the scenario runner
LogInit ==
  /\ MemAbsent
  /\ SessionAbsent
  /\ ProbeAbsent
  /\ DecayAbsent
  /\ MigAbsent
  /\ RepoAbsent
  /\ LogAbsent

\* recordSortResult(rows)
LogRecordSortResult(rows) ==
  /\ log' = [log EXCEPT !.sortResult = << rows >>]
  /\ UNCHANGED << logFile, finalizeCalls >>
  /\ UNCHANGED exceptLog

\* recordReview(input): buildReviewRow throws on a missing number, before the push
LogRecordReview(input) ==
  /\ Len(log.reviews) < MaxLogRows
  /\ log' = IF requireNumberThrows(input.answerScore)
            THEN log
            ELSE [log EXCEPT !.reviews = Append(log.reviews, buildReviewRow(input))]
  /\ UNCHANGED << logFile, finalizeCalls >>
  /\ UNCHANGED exceptLog

\* finalize(params): the log is completed, then written; mkdir or writeFile may reject
LogFinalize(endedAtMs, finalStats, outcome, writeOk) ==
  /\ finalizeCalls < MaxFinalize
  /\ log' = [log EXCEPT !.endedAt = << endedAtMs >>, !.stats = << finalStats >>,
                        !.outcome = << outcome >>]
  /\ logFile' = IF writeOk THEN << log' >> ELSE logFile
  /\ finalizeCalls' = finalizeCalls + 1
  /\ UNCHANGED exceptLog

LogNext ==
  \/ \E rows \in SortRows : LogRecordSortResult(rows)
  \/ \E input \in ReviewInputs : LogRecordReview(input)
  \/ \E endedAtMs \in EndTimes, finalStats \in LogStats, outcome \in Outcomes, writeOk \in BOOLEAN :
       LogFinalize(endedAtMs, finalStats, outcome, writeOk)

SpecLog == LogInit /\ [][LogNext]_vars

(***************************************************************************)
(* calculatePriority on one item, called again after each lapse of time.   *)
(* The inputs keep the decay exponent either below 10 or from 40 on, where *)
(* the fixed-point ExpNeg and the double Math.exp agree on whether         *)
(* 1 - exp(-x) is below 1 or exactly 1, and the days below what 32-bit     *)
(* arithmetic can multiply by the difficulty.                              *)
(***************************************************************************)
MaxLapses == 3
MaxProbeDays == 85

\* inputs
ProbeStrengths == {DEFAULT_STRENGTH, 2 * DEFAULT_STRENGTH}
ProbeDifficulties == {MIN_DIFFICULTY, DEFAULT_DIFFICULTY}
Lapses == {SAME_DAY_WINDOW, TICKS_IN_DAY \div 2, TICKS_IN_DAY, 80 * TICKS_IN_DAY}

\* what getForgetProbability and calculatePriority return for the item
probed(strength, difficulty, daysSinceLastReview, steps) ==
  [strength |-> strength, difficulty |-> difficulty,
   daysSinceLastReview |-> daysSinceLastReview, steps |-> steps,
   forgetProbability |-> getForgetProbability(strength, difficulty, daysSinceLastReview),
   priority |-> priorityOf([memoryStrength |-> strength, memoryDifficulty |-> difficulty,
                            memoryLastReviewed |-> 0], daysSinceLastReview)]

\* an item reviewed just now
ProbeInit ==
  /\ MemAbsent
  /\ SessionAbsent
  /\ LogAbsent
  /\ DecayAbsent
  /\ MigAbsent
  /\ RepoAbsent
  /\ \E strength \in ProbeStrengths, difficulty \in ProbeDifficulties :
       probe = probed(strength, difficulty, 0, 0)

\* calculatePriority(item) after a further lapse of time
Elapse(lapse) ==
  /\ probe.steps < MaxLapses
  /\ probe.daysSinceLastReview + lapse <= MaxProbeDays * TICKS_IN_DAY
  /\ probe' = probed(probe.strength, probe.difficulty,
                     probe.daysSinceLastReview + lapse, probe.steps + 1)
  /\ UNCHANGED exceptProbe

ProbeNext == \E lapse \in Lapses : Elapse(lapse)

SpecPriority == ProbeInit /\ [][ProbeNext]_vars

(***************************************************************************)
(* The decay check as the decay script runs it, again and again while the  *)
(* clock advances.  The repository's updates are taken to succeed.         *)
(***************************************************************************)
MaxChecks == 3
MaxQuarters == 6

QUARTERS_IN_DAY == 4
DAILY_DECAY_RATE == 98

\* inputs
FirstQuarter == 10 * QUARTERS_IN_DAY
TimeZones == {-1, 0, 1}
DecayFiles == { << >>, << 9 >>, << 7 >> }
StrengthLists == { << 100, 1, 0 >>, << 50 >> }

\* new Date().toISOString().split("T")[0]: the date in UTC
utcDate(now) == now \div QUARTERS_IN_DAY

\* the local calendar day of an instant (setHours(0, 0, 0, 0) goes to its start)
localDay(now, tz) == (now + tz) \div QUARTERS_IN_DAY

\* new Date("YYYY-MM-DD"): midnight of the date in UTC
parseDate(date) == date * QUARTERS_IN_DAY

\* DecayStore.getDaysSinceLastDecay: << >> for null
getDaysSinceLastDecay(df, now, tz) ==
  IF df = << >> THEN << >>
  ELSE << localDay(now, tz) - localDay(parseDate(df[1]), tz) >>

\* DecayStore.updateLastDecayDate: the file after the call
updateLastDecayDate(df, now, writeOk) == IF writeOk THEN << utcDate(now) >> ELSE df

\* Math.pow(DAILY_DECAY_RATE, days), in millionths
RECURSIVE decayFactor(_)
decayFactor(days) ==
  IF days <= 0 THEN 1000000 ELSE (decayFactor(days - 1) * DAILY_DECAY_RATE) \div 100

\* applyMultipleDaysDecay: the strengths after the call
applyMultipleDaysDecay(ss, days) ==
  [k \in 1..Len(ss) |->
     IF ss[k] > 0 THEN (ss[k] * decayFactor(days)) \div 1000000 ELSE ss[k]]

DecayInit ==
  /\ MemAbsent
  /\ SessionAbsent
  /\ LogAbsent
  /\ ProbeAbsent
  /\ MigAbsent
  /\ RepoAbsent
  /\ utcNow \in FirstQuarter..(FirstQuarter + QUARTERS_IN_DAY - 1)
  /\ tzOffset \in TimeZones
  /\ decayFile \in DecayFiles
  /\ strengths \in StrengthLists
  /\ lastCheck = NoCheck

\* the clock advances by a quarter of a day
DecayTick ==
  /\ utcNow < FirstQuarter + QUARTERS_IN_DAY - 1 + MaxQuarters
  /\ utcNow' = utcNow + 1
  /\ UNCHANGED << tzOffset, decayFile, strengths, lastCheck >>
  /\ UNCHANGED exceptDecay

\* checkAndApplyOverdueDecay(repo, decayStore)
checkAndApplyOverdueDecay(writeOk) ==
  LET daysSinceLastDecay == getDaysSinceLastDecay(decayFile, utcNow, tzOffset)
      done(outcome) == [outcome |-> outcome, at |-> utcNow,
                        localDay |-> localDay(utcNow, tzOffset),
                        checks |-> lastCheck.checks + 1]
  IN /\ lastCheck.checks < MaxChecks
     /\ IF daysSinceLastDecay = << >>
        THEN /\ decayFile' = updateLastDecayDate(decayFile, utcNow, writeOk)
             /\ UNCHANGED strengths
             /\ lastCheck' = done("initialised")
        ELSE IF daysSinceLastDecay[1] > 0
             THEN /\ strengths' = applyMultipleDaysDecay(strengths, daysSinceLastDecay[1])
                  /\ decayFile' = updateLastDecayDate(decayFile, utcNow, writeOk)
                  /\ lastCheck' = done("applied")
             ELSE /\ UNCHANGED << strengths, decayFile >>
                  /\ lastCheck' = done("nothing")
     /\ UNCHANGED << utcNow, tzOffset >>
     /\ UNCHANGED exceptDecay

DecayNext ==
  \/ DecayTick
  \/ \E writeOk \in BOOLEAN : checkAndApplyOverdueDecay(writeOk)

SpecDecay == DecayInit /\ [][DecayNext]_vars

(***************************************************************************)
(* Migration and rollback runs on one data file, one run after another.    *)
(* writeFileSync either writes the whole content, or throws before the     *)
(* file is touched, or throws after the file was truncated or written in   *)
(* part.                                                                   *)
(***************************************************************************)
MaxRuns == 2

\* a content that is no JSON array of objects
Garbage == << -1 >>

\* inputs
DataFiles == { << >>, << 1 >>, << 1, 2 >>, << 1, 5 >>, Garbage }
Stamps == {1, 2}
BackupNames == [kind : {"migrate", "rollback"}, stamp : Stamps]
WriteOutcomes == {"written", "untouched", "partial"}

\* JSON.parse succeeds and isArrayOfObjects holds
isArrayOfObjects(content) == content # Garbage

\* the converter of the run returns an object for the entry
returnsObject(entry) == entry % 10 # 5

\* the converter of the run
convert(entry) == entry + 10

\* parsed.map(convert), serialised
migratedOf(content) == [k \in 1..Len(content) |-> convert(content[k])]

\* the backup directory as created by mkdirSync
NoBackups == [name \in BackupNames |-> << >>]

\* fs.writeFileSync(path, content): the file afterwards
writeFileSync(before, content, outcome) ==
  CASE outcome = "written" -> << content >>
    [] outcome = "untouched" -> before
    [] OTHER -> << Garbage >>

\* variant: after the dry-run exit the data file is written at once
afterPreparation_noBackup(dryRun) == IF dryRun THEN "exited" ELSE "data"

\* migrate.mts: the step that follows the preparation of the run
afterPreparation(dryRun) == IF dryRun THEN "exited" ELSE "backup"

MigInit ==
  /\ MemAbsent
  /\ SessionAbsent
  /\ LogAbsent
  /\ ProbeAbsent
  /\ DecayAbsent
  /\ RepoAbsent
  /\ dataFile \in {<< content >> : content \in DataFiles}
  /\ backups = NoBackups
  /\ run = NoRun

\* no script is running
noneRunning == run.pc \in {"exited", "failed"}

\* migrate.mts up to the dry-run exit: the data file is read and parsed, every
\* entry converted, the backup directory made and the backup's name chosen
MigrateBegin(dryRun, stamp, mkdirOk) ==
  LET raw == dataFile[1]
      prepared == /\ isArrayOfObjects(raw)
                  /\ \A k \in 1..Len(raw) : returnsObject(raw[k])
                  /\ mkdirOk
  IN /\ noneRunning
     /\ run.runs < MaxRuns
     /\ run' = [kind |-> "migrate",
                pc |-> IF prepared THEN afterPreparation(dryRun) ELSE "failed",
                dryRun |-> dryRun, raw |-> raw,
                next |-> IF prepared THEN migratedOf(raw) ELSE << >>,
                backupPath |-> [kind |-> "migrate", stamp |-> stamp],
                runs |-> run.runs + 1]
     /\ UNCHANGED << dataFile, backups >>
     /\ UNCHANGED exceptMig

\* fs.writeFileSync(backupPath, raw, "utf8")
MigrateWriteBackup(outcome) ==
  /\ run.kind = "migrate"
  /\ run.pc = "backup"
  /\ backups' = [backups EXCEPT ![run.backupPath] = writeFileSync(@, run.raw, outcome)]
  /\ run' = [run EXCEPT !.pc = IF outcome = "written" THEN "data" ELSE "failed"]
  /\ UNCHANGED dataFile
  /\ UNCHANGED exceptMig

\* fs.writeFileSync(dataFilePath, JSON.stringify(migrated, null, 2), "utf8")
MigrateWriteData(outcome) ==
  /\ run.kind = "migrate"
  /\ run.pc = "data"
  /\ dataFile' = writeFileSync(dataFile, run.next, outcome)
  /\ run' = [run EXCEPT !.pc = IF outcome = "written" THEN "exited" ELSE "failed"]
  /\ UNCHANGED backups
  /\ UNCHANGED exceptMig

\* rollback.mts up to its writes: the backup named on the command line must
\* exist; both files are read, the dry run exits, the backup directory is made
RollbackBegin(backupArg, dryRun, stamp, mkdirOk) ==
  LET found == backups[backupArg] # << >>
  IN /\ noneRunning
     /\ run.runs < MaxRuns
     /\ run' = [kind |-> "rollback",
                pc |-> IF ~found THEN "failed"
                       ELSE IF dryRun THEN "exited"
                       ELSE IF mkdirOk THEN "backup" ELSE "failed",
                dryRun |-> dryRun, raw |-> dataFile[1],
                next |-> IF found THEN backups[backupArg][1] ELSE << >>,
                backupPath |-> [kind |-> "rollback", stamp |-> stamp],
                runs |-> run.runs + 1]
     /\ UNCHANGED << dataFile, backups >>
     /\ UNCHANGED exceptMig

\* fs.writeFileSync(rollbackBackupPath, currentRaw, "utf8")
RollbackWriteBackup(outcome) ==
  /\ run.kind = "rollback"
  /\ run.pc = "backup"
  /\ backups' = [backups EXCEPT ![run.backupPath] = writeFileSync(@, run.raw, outcome)]
  /\ run' = [run EXCEPT !.pc = IF outcome = "written" THEN "data" ELSE "failed"]
  /\ UNCHANGED dataFile
  /\ UNCHANGED exceptMig

\* fs.writeFileSync(dataFilePath, backupRaw, "utf8")
RollbackWriteData(outcome) ==
  /\ run.kind = "rollback"
  /\ run.pc = "data"
  /\ dataFile' = writeFileSync(dataFile, run.next, outcome)
  /\ run' = [run EXCEPT !.pc = IF outcome = "written" THEN "exited" ELSE "failed"]
  /\ UNCHANGED backups
  /\ UNCHANGED exceptMig

MigNext ==
  \/ \E dryRun \in BOOLEAN, stamp \in Stamps, mkdirOk \in BOOLEAN :
       MigrateBegin(dryRun, stamp, mkdirOk)
  \/ \E outcome \in WriteOutcomes : MigrateWriteBackup(outcome)
  \/ \E outcome \in WriteOutcomes : MigrateWriteData(outcome)
  \/ \E backupArg \in BackupNames, dryRun \in BOOLEAN, stamp \in Stamps, mkdirOk \in BOOLEAN :
       RollbackBegin(backupArg, dryRun, stamp, mkdirOk)
  \/ \E outcome \in WriteOutcomes : RollbackWriteBackup(outcome)
  \/ \E outcome \in WriteOutcomes : RollbackWriteData(outcome)

SpecMigrate == MigInit /\ [][MigNext]_vars


(***************************************************************************)
(* Claims about getNewState, checked under SpecMem                         *)
(***************************************************************************)
\* the latest call returned (did not throw)
Called == lastCall.made /\ ~lastCall.result.threw

CallStrength == IF lastCall.strength <= 0 THEN 1000000 ELSE lastCall.strength
CallDifficulty == IF lastCall.difficulty <= 0 THEN 2000 ELSE lastCall.difficulty

\* the latest call came within 0.11 days on a state that, after coercion, is
\* not the pristine default (strength 1, difficulty 2)
GuardCase ==
  /\ lastCall.days <= 1100
  /\ ~(CallStrength = 1000000 /\ CallDifficulty = 2000)

C2_Original ==
  (Called /\ GuardCase) =>
    /\ lastCall.result.newStrength = lastCall.strength
    /\ lastCall.result.newDifficulty = lastCall.difficulty
    /\ lastCall.result.newStreak = lastCall.streak

\* C2 amended: under the guard the result is the coerced strength and
\* difficulty (the inputs themselves when they are positive) and the input
\* streak, whatever the answer score and latency, and a further call on that
\* result within 0.11 days returns it again.
C2_GuardReturnsCoercedState ==
  (Called /\ GuardCase) =>
    /\ lastCall.result.newStrength = CallStrength
    /\ lastCall.result.newDifficulty = CallDifficulty
    /\ lastCall.result.newStreak = lastCall.streak
    /\ \A answerScore \in AnswerScore, answerTime \in AnswerTimes, days \in DaysSince :
         days <= 1100 =>
           getNewStateWithDefaults(answerScore, answerTime, lastCall.itemLength,
                                   lastCall.result.newStrength, days,
                                   lastCall.result.newDifficulty,
                                   lastCall.result.newStreak) = lastCall.result

\* C2 witness: a perfect, fast answer exactly 0.11 days after the last review
\* of a non-pristine item with a streak.
C2_Witness ==
  /\ Called
  /\ GuardCase
  /\ lastCall.days = 1100
  /\ lastCall.answerScore = VERY_KNOW
  /\ lastCall.answerTime = 1000
  /\ lastCall.streak = 3
  /\ lastCall.strength = 3500000

\* C3 as stated: the streak is reset below score 1 and incremented from
\* score 1 on, in every call.
C3_Original ==
  Called =>
    /\ lastCall.answerScore < 1000 => lastCall.result.newStreak = 0
    /\ lastCall.answerScore >= 1000 => lastCall.result.newStreak = lastCall.streak + 1

\* C3 amended: in every call that the same-day guard does not suppress the
\* streak is reset below score 1 and incremented from score 1 on; a
\* suppressed call returns the current streak.
C3_StreakUnlessGuarded ==
  Called =>
    /\ (~GuardCase /\ lastCall.answerScore < 1000) => lastCall.result.newStreak = 0
    /\ (~GuardCase /\ lastCall.answerScore >= 1000) =>
         lastCall.result.newStreak = lastCall.streak + 1
    /\ GuardCase => lastCall.result.newStreak = lastCall.streak

\* C3 witness: a streak of 3 raised to 4 by a KNOW answer a day later.
C3_Witness ==
  /\ Called
  /\ ~GuardCase
  /\ lastCall.answerScore = KNOW
  /\ lastCall.streak = 3
  /\ lastCall.result.newStreak = 4

\* C4 as stated: a NO answer always yields max(1, currentStrength * 0.3).
C4_Original ==
  (Called /\ lastCall.answerScore = NO) =>
    lastCall.result.newStrength = Max(1000000, (lastCall.strength * 3) \div 10)

\* C4 amended: a NO answer that the same-day guard does not suppress yields
\* max(1, currentStrength * 0.3), whatever the answer time, the streak and
\* the elapsed days; a suppressed one returns the current strength.
C4_ForgettingPenaltyUnlessGuarded ==
  (Called /\ lastCall.answerScore = NO) =>
    /\ ~GuardCase =>
         lastCall.result.newStrength = Max(1000000, (lastCall.strength * 3) \div 10)
    /\ GuardCase => lastCall.result.newStrength = CallStrength

\* C4 witness: strength 3.5 cut to 1.05 by a NO answer after a day.
C4_Witness ==
  /\ Called
  /\ ~GuardCase
  /\ lastCall.answerScore = NO
  /\ lastCall.strength = 3500000
  /\ lastCall.result.newStrength = 1050000

\* the latest call is the first review of a pristine item (strength 1,
\* difficulty 2, streak 0) within the guard's window, answered KNOW and fast
\* (inside 15 times the expected time, above the reaction time)
FreshFastKnow ==
  /\ Called
  /\ lastCall.strength = 1000000
  /\ lastCall.difficulty = 2000
  /\ lastCall.streak = 0
  /\ lastCall.days <= 1100
  /\ lastCall.answerScore = KNOW
  /\ lastCall.answerTime = 1000

C6_NoChangeOnRapidRepeat ==
  [][(genuine /\ nReviews' = nReviews + 1 /\ lastCall'.days <= 1100
        /\ ~lastCall'.result.threw)
       => stored' = stored]_vars

(***************************************************************************)
(* Claims about the study session, checked under Spec                      *)
(***************************************************************************)
\* the words of a sequence of items
wordsOf(items) == {items[k].word : k \in 1..Len(items)}

\* priorities do not increase along the sequence
nonIncreasing(items) ==
  \A k \in 1..(Len(items) - 1) : items[k].priority >= items[k + 1].priority

\* startStudySession has chosen the working set and awaits "Enter"
TopMode == pc = "begin" /\ ~selection.startGiven
RangeMode == pc = "begin" /\ selection.startGiven

\* a and b have equal strength and difficulty, a was last reviewed now and
\* b 30 days ago
NowAnd30DaysAgo(a, b) ==
  /\ a.memoryStrength = b.memoryStrength
  /\ a.memoryDifficulty = b.memoryDifficulty
  /\ a.memoryLastReviewed = clock
  /\ b.memoryLastReviewed = clock - 30 * TICKS_IN_DAY

\* C7: sortByPriority returns its items, each with its calculatePriority, in
\* non-increasing order of that priority; of two items of equal strength and
\* difficulty, A last reviewed now and B 30 days ago, B comes before A, and a
\* top-1 session reviews B rather than A.
C7_SortedByPriority ==
  LET sorted == sortByPriority(cache, clock)
  IN /\ Len(sorted) = Len(cache)
     /\ wordsOf(sorted) = wordsOf(cache)
     /\ \A k \in 1..Len(sorted) :
          sorted[k] = calculatePriority(cache[findIndexByWord(cache, sorted[k].word)], clock)
     /\ nonIncreasing(sorted)
     /\ nonIncreasing(sessionWords)
     /\ \A a, b \in 1..Len(sorted) :
          NowAnd30DaysAgo(sorted[a], sorted[b]) => b < a
     /\ (TopMode /\ selection.maxWords = 1) =>
          \A a, b \in 1..Len(cache) :
            NowAnd30DaysAgo(cache[a], cache[b]) =>
              /\ sessionWords[1].word # cache[a].word
              /\ Len(cache) = 2 => sessionWords[1].word = cache[b].word

\* C7 witness: a top-1 session over the two items A (first in the
\* repository) and B has B as its only word.
C7_Witness ==
  /\ TopMode
  /\ selection.maxWords = 1
  /\ Len(cache) = 2
  /\ NowAnd30DaysAgo(cache[1], cache[2])
  /\ sessionWords[1].word = cache[2].word

\* C8: without startIndex the working set has exactly min(maxWords, total)
\* items of the repository, and every selected item has a priority greater
\* than or equal to that of every item not selected.
C8_TopNSelection ==
  TopMode =>
    /\ Len(sessionWords) = Min(selection.maxWords, Len(cache))
    /\ Cardinality(wordsOf(sessionWords)) = Len(sessionWords)
    /\ wordsOf(sessionWords) \subseteq wordsOf(cache)
    /\ \A s, u \in 1..Len(cache) :
         (cache[s].word \in wordsOf(sessionWords) /\ cache[u].word \notin wordsOf(sessionWords))
           => priorityOf(cache[s], clock) >= priorityOf(cache[u], clock)

\* C8 witness: top-1 of two items takes the second position, whose priority
\* is strictly higher, and leaves the first out.
C8_Witness ==
  /\ TopMode
  /\ selection.maxWords = 1
  /\ Len(cache) = 2
  /\ cache[2].memoryStrength = 3500000
  /\ Len(sessionWords) = 1
  /\ sessionWords[1].word = cache[2].word
  /\ priorityOf(cache[2], clock) > priorityOf(cache[1], clock)

\* C9: with startIndex the working set is exactly the items at positions
\* startIndex..min(endIndex, total) of the repository's order (endIndex
\* defaulting to total), each with its calculatePriority, in non-increasing
\* order of priority within that slice.
C9_RangeSelection ==
  RangeMode =>
    LET total == Len(cache)
        last == IF selection.endGiven THEN Min(selection.endIndex, total) ELSE total
        positions == selection.startIndex..last
    IN /\ Len(sessionWords) = Cardinality(positions)
       /\ wordsOf(sessionWords) = {cache[p].word : p \in positions}
       /\ \A k \in 1..Len(sessionWords) :
            \E p \in positions : sessionWords[k] = calculatePriority(cache[p], clock)
       /\ nonIncreasing(sessionWords)

\* C9 witness: the range 1..1 of two items holds the first item although the
\* second one, outside the range, has the higher priority.
C9_Witness ==
  /\ RangeMode
  /\ selection.startIndex = 1
  /\ selection.endGiven
  /\ selection.endIndex = 1
  /\ Len(cache) = 2
  /\ sessionWords = << calculatePriority(cache[1], clock) >>
  /\ priorityOf(cache[2], clock) > priorityOf(cache[1], clock)

\* a step that changes something besides the clue level
otherThanClueLevelChanged ==
  << clock, cache, file, pc, message, sessionWords, i, startedAt, stats, selection >>' #
  << clock, cache, file, pc, message, sessionWords, i, startedAt, stats, selection >>

\* C10: the clue level is in {0,1,2}; it is 0 when the review of an item
\* starts; during the review of an item it never decreases, and a step that
\* changes it raises it by exactly 1 from below 2 and changes nothing else
\* (the session stays in REVIEWING of the same item); the hint choice at
\* clue level 2 changes nothing.
C10_ClueLevel ==
  [][/\ clueLevel \in {0, 1, 2}
     /\ clueLevel' \in {0, 1, 2}
     /\ (pc' = "reviewing" /\ (pc # "reviewing" \/ i' # i)) => clueLevel' = 0
     /\ (pc = "reviewing" /\ pc' = "reviewing" /\ i' = i) => clueLevel' >= clueLevel
     /\ (pc = "reviewing" /\ pc' = "reviewing" /\ i' = i /\ clueLevel' # clueLevel) =>
          /\ clueLevel < 2
          /\ clueLevel' = clueLevel + 1
          /\ ~otherThanClueLevelChanged
     /\ (pc = "reviewing" /\ clueLevel = 2) => ~ENABLED (ChooseHint /\ vars' # vars)
    ]_vars

\* C10 witness: the second item of a session under review at clue level 2.
C10_Witness ==
  /\ pc = "reviewing"
  /\ i = 1
  /\ clueLevel = 2

\* the step is an answer: startStudySession counted a reviewed word
answered == stats'.wordsReviewed = stats.wordsReviewed + 1

\* the answer score the step counted, read from the outcome counter it raised
\* (-1: none)
countedScore ==
  IF stats'.veryKnowCount = stats.veryKnowCount + 1 THEN 1500
  ELSE IF stats'.knowCount = stats.knowCount + 1 THEN 1000
  ELSE IF stats'.clueCount = stats.clueCount + 1 THEN 500
  ELSE IF stats'.cluesCount = stats.cluesCount + 1 THEN 200
  ELSE IF stats'.noCount = stats.noCount + 1 THEN 0
  ELSE -1

\* the step wrote to the repository the review of the word under review with
\* the given answer score
wroteReviewWith(answerScore) ==
  \E subTick \in SubTickMs :
    LET word == sessionWords[i + 1]
        result == getNewStateWithDefaults(answerScore, elapsedMs(subTick),
                                          Max(1, lengthOfWord(word.word)),
                                          word.memoryStrength,
                                          Max(0, clock - word.memoryLastReviewed),
                                          word.memoryDifficulty, word.memoryStreak)
    IN cache' = updatedCache(cache, word.word, result.newStrength,
                             result.newDifficulty, result.newStreak, clock)

\* C11: the perfect choice made after a hint was shown has no successor but
\* the same state (no answer, clueLevel, stats and repository unchanged, the
\* same item under review), and no step counts VERY_KNOW for a review in
\* which a hint was displayed.
C11_PerfectOnlyWithoutHint ==
  [][/\ (pc = "reviewing" /\ clueLevel > 0) =>
          ~ENABLED (\E subTick \in SubTickMs, saveOk \in BOOLEAN :
                      ChoosePerfect(subTick, saveOk) /\ vars' # vars)
     /\ (answered /\ clueLevel > 0) =>
          /\ stats'.veryKnowCount = stats.veryKnowCount
          /\ countedScore # 1500
     /\ stats'.veryKnowCount # stats.veryKnowCount => (pc = "reviewing" /\ clueLevel = 0)
    ]_vars

\* C11 witness: the first item was answered perfectly and the second is under
\* review with a hint shown.
C11_Witness ==
  /\ pc = "reviewing"
  /\ i = 1
  /\ clueLevel = 1
  /\ stats.veryKnowCount = 1

\* C12: an answer counts and writes the score given by the choice and the
\* clue level at that moment: perfect 1.5; know 1 at clue level 0, 0.5 at 1,
\* 0.2 at 2; don't-know 0 at every clue level.
C12_ScoreByChoiceAndClueLevel ==
  [][/\ answered =>
          /\ countedScore \in (IF clueLevel = 0 THEN {1500, 1000, 0}
                               ELSE IF clueLevel = 1 THEN {500, 0} ELSE {200, 0})
          /\ wroteReviewWith(countedScore)
     /\ \/ ~answered
        \/ countedScore = 1500
        \/ ~(\E subTick \in SubTickMs, saveOk \in BOOLEAN : ChoosePerfect(subTick, saveOk))
     /\ \/ /\ answered
           /\ countedScore = (IF clueLevel = 0 THEN 1000
                              ELSE IF clueLevel = 1 THEN 500 ELSE 200)
        \/ ~(\E subTick \in SubTickMs, saveOk \in BOOLEAN : ChooseKnow(subTick, saveOk))
     /\ \/ /\ answered
           /\ countedScore = 0
        \/ ~(\E subTick \in SubTickMs, saveOk \in BOOLEAN : ChooseNo(subTick, saveOk))
    ]_vars

\* C12 witness: a session of two items ended with one know answer at clue
\* level 1 and one at clue level 2.
C12_Witness ==
  /\ pc = "completed"
  /\ clueLevel = 2
  /\ stats.clueCount = 1
  /\ stats.cluesCount = 1

\* the repository's entry for the j-th word of the session, and that word as
\* it was when the session started
entryOf(c, j) == c[findIndexByWord(c, sessionWords[j].word)]
atSessionStart(j) == Vocab(sessionWords[j].word, sessionWords[j])

\* C13: a quit during the review of item k ends the session in that step
\* with the repository, the data store and the statistics untouched: what
\* the k-1 reviews wrote stays (each review wrote the entry of its own item
\* only), items k and later are as they were when the session started, the
\* statistics count k-1 reviews, and nothing happens after the quit.
C13_QuitKeepsAppliedUpdates ==
  [][/\ pc # "quit"
     /\ (pc = "reviewing" /\ pc' = "quit") =>
          /\ cache' = cache
          /\ file' = file
          /\ stats' = stats
          /\ i' = i
          /\ sessionWords' = sessionWords
     /\ pc = "reviewing" =>
          /\ stats.wordsReviewed = i
          /\ \A j \in (i + 1)..Len(sessionWords) : entryOf(cache, j) = atSessionStart(j)
          /\ cache' # cache => (answered /\ wroteReviewWith(countedScore))
     /\ pc' = "quit" =>
          /\ stats'.wordsReviewed = i'
          /\ \A j \in (i' + 1)..Len(sessionWords') : entryOf(cache', j) = atSessionStart(j)'
    ]_vars

\* C13 witness: the session was quit at its second item after the review of
\* the first one changed that item's entry.
C13_Witness ==
  /\ pc = "quit"
  /\ Len(sessionWords) = 2
  /\ i = 1
  /\ stats.wordsReviewed = 1
  /\ stats.knowCount = 1
  /\ entryOf(cache, 1) # atSessionStart(1)
  /\ entryOf(cache, 2) = atSessionStart(2)

\* the five outcome counters of a StudyStats, in order, and their sum
outcomeCounts(st) ==
  << st.veryKnowCount, st.knowCount, st.clueCount, st.cluesCount, st.noCount >>
outcomeSum(st) ==
  st.veryKnowCount + st.knowCount + st.clueCount + st.cluesCount + st.noCount

\* C14: the statistics change only at session start and once per answer; an
\* answer (every step that moves the session past an item) raises
\* wordsReviewed by 1 and exactly one of the five outcome counters by 1;
\* wordsReviewed is always the sum of the five counters and at most
\* totalWords; totalWords does not change after session start.
C14_StatsOncePerItem ==
  [][/\ stats.wordsReviewed = outcomeSum(stats)
     /\ stats'.wordsReviewed = outcomeSum(stats')
     /\ stats.wordsReviewed <= stats.totalWords
     /\ stats'.wordsReviewed <= stats'.totalWords
     /\ pc # "idle" => stats'.totalWords = stats.totalWords
     /\ pc' # "idle" => stats'.totalWords = Len(sessionWords')
     /\ (pc # "idle" /\ stats' # stats) => answered
     /\ i' # i => (pc = "idle" \/ (answered /\ i' = i + 1))
     /\ answered =>
          /\ pc = "reviewing"
          /\ i' = i + 1
          /\ outcomeSum(stats') = outcomeSum(stats) + 1
          /\ Cardinality({k \in 1..5 : outcomeCounts(stats')[k] = outcomeCounts(stats)[k] + 1}) = 1
          /\ Cardinality({k \in 1..5 : outcomeCounts(stats')[k] = outcomeCounts(stats)[k]}) = 4
    ]_vars

\* C14 witness: a completed session of two items, one answered perfectly and
\* one not known.
C14_Witness ==
  /\ pc = "completed"
  /\ stats.totalWords = 2
  /\ stats.wordsReviewed = 2
  /\ stats.veryKnowCount = 1
  /\ stats.noCount = 1

\* the step replaced the entry of the word under review by the four fields of
\* one review computed with the given answer score, and left every other
\* entry alone
replacedAllFour(answerScore) ==
  \E subTick \in SubTickMs :
    LET word == sessionWords[i + 1]
        index == findIndexByWord(cache, word.word)
        result == getNewStateWithDefaults(answerScore, elapsedMs(subTick),
                                          Max(1, lengthOfWord(word.word)),
                                          word.memoryStrength,
                                          Max(0, clock - word.memoryLastReviewed),
                                          word.memoryDifficulty, word.memoryStreak)
    IN /\ index # 0
       /\ Len(cache') = Len(cache)
       /\ cache'[index] = [word |-> word.word,
                           memoryStrength |-> result.newStrength,
                           memoryDifficulty |-> result.newDifficulty,
                           memoryStreak |-> result.newStreak,
                           memoryLastReviewed |-> clock]
       /\ \A k \in 1..Len(cache) : k # index => cache'[k] = cache[k]

\* C15: every answer replaces, in its one step, all four memory fields of the
\* reviewed item's entry by the result of one getNewState call and the time
\* of the review, and changes no other entry; no other step changes the
\* repository; the data store takes the whole new cache or stays as it was.
C15_AllFourFieldsTogether ==
  [][/\ answered => replacedAllFour(countedScore)
     /\ (pc # "idle" /\ ~answered) => (cache' = cache /\ file' = file)
     /\ file' \in {file, cache'}
    ]_vars

\* C15 witness: the review of the first item changed all four of its memory
\* fields and was saved.
C15_Witness ==
  /\ pc \in {"reviewing", "completed"}
  /\ i >= 1
  /\ entryOf(cache, 1).memoryStrength # atSessionStart(1).memoryStrength
  /\ entryOf(cache, 1).memoryDifficulty # atSessionStart(1).memoryDifficulty
  /\ entryOf(cache, 1).memoryStreak # atSessionStart(1).memoryStreak
  /\ entryOf(cache, 1).memoryLastReviewed # atSessionStart(1).memoryLastReviewed
  /\ file = cache

\* C16: the items are presented one at a time in the order of the working
\* set, each once: the loop index moves only by one, in an answering step,
\* and that same step has applied the item's update to the repository (the
\* data store took it or the save failed) before the next item is presented;
\* the answer on the last item, and nothing else, completes the session.
C16_OneAfterAnother ==
  [][/\ pc = "reviewing" =>
          /\ i < Len(sessionWords)
          /\ Cardinality(wordsOf(sessionWords)) = Len(sessionWords)
          /\ i >= 1 => entryOf(cache, i).memoryLastReviewed \in StartClock..startedAt
     /\ pc # "completed"
     /\ (pc # "idle" /\ i' # i) => (answered /\ i' = i + 1)
     /\ (pc # "idle" /\ sessionWords' # sessionWords) => FALSE
     /\ answered =>
          /\ pc = "reviewing"
          /\ entryOf(cache', i + 1).memoryLastReviewed = clock
          /\ file' = cache' \/ file' = file
          /\ IF i + 1 < Len(sessionWords)
             THEN pc' = "reviewing" /\ i' = i + 1 /\ clueLevel' = 0 /\ startedAt' = clock
             ELSE pc' = "completed" /\ i' = Len(sessionWords)
     /\ pc' = "completed" => (answered /\ i + 1 = Len(sessionWords))
    ]_vars

\* C16 witness: a session of two items completed, the second reviewed later
\* than the first.
C16_Witness ==
  /\ pc = "completed"
  /\ Len(sessionWords) = 2
  /\ i = 2
  /\ entryOf(cache, 1).memoryLastReviewed >= StartClock
  /\ entryOf(cache, 2).memoryLastReviewed > entryOf(cache, 1).memoryLastReviewed

\* the step is an answer whose repository update reported failure: the data
\* store did not take the new cache
updateFailed == answered /\ file' # cache'

\* the session shows a notice of a failed update
failureNoticed == message \in {"update failed", "save failed", "not found"}

\* C17 as stated: an update that reports failure does not end the session
\* (the next item is presented, or the session is completed if it was the
\* last one), and the failure is recorded by the session.
C17_FailedUpdateRecordedAndSurvived ==
  [][updateFailed =>
       /\ IF i + 1 < Len(sessionWords)
          THEN pc' = "reviewing" /\ i' = i + 1
          ELSE pc' = "completed"
       /\ failureNoticed'
    ]_vars

\* the part of C17 that the session keeps: a failed update leaves the loop
\* running; statistics and notices are the same as after a successful one
failedUpdateSurvived ==
  [][updateFailed =>
       /\ IF i + 1 < Len(sessionWords)
          THEN pc' = "reviewing" /\ i' = i + 1 /\ message' = message
          ELSE pc' = "completed" /\ message' = "completed"
       /\ stats' = countAnswer(stats, countedScore)
    ]_vars

\* a session of two items completed although the update of the first item
\* was never taken by the data store
failedUpdateReached ==
  /\ pc = "completed"
  /\ i = 2
  /\ file # cache
  /\ entryOf(file, 1) = atSessionStart(1)
  /\ entryOf(file, 2) = atSessionStart(2)

NonPositive == {0, -1, -3500000}

\* the latest call repeated with the given strength and difficulty
sameCallWith(strength, difficulty) ==
  getNewStateWithDefaults(lastCall.answerScore, lastCall.answerTime, lastCall.itemLength,
                          strength, lastCall.days, difficulty, lastCall.streak)

\* C19: with a valid itemLength, a call with currentStrength <= 0 returns
\* what the same call returns with currentStrength = 1, a call with
\* currentDifficulty <= 0 what it returns with currentDifficulty = 2, and
\* neither raises an error.
C19_ColdStartCoercion ==
  (lastCall.made /\ lastCall.itemLength > 0) =>
    /\ lastCall.strength <= 0 =>
         lastCall.result = sameCallWith(1000000, lastCall.difficulty)
    /\ lastCall.difficulty <= 0 =>
         lastCall.result = sameCallWith(lastCall.strength, 2000)
    /\ LET withStrength1 == sameCallWith(1000000, lastCall.difficulty)
           withDifficulty2 == sameCallWith(lastCall.strength, 2000)
           withBoth == sameCallWith(1000000, 2000)
       IN /\ ~withStrength1.threw /\ ~withDifficulty2.threw /\ ~withBoth.threw
          /\ \A s \in NonPositive :
               /\ sameCallWith(s, lastCall.difficulty) = withStrength1
               /\ sameCallWith(lastCall.strength, s) = withDifficulty2
               /\ \A d \in NonPositive : sameCallWith(s, d) = withBoth

\* C19 witness: an item stored with strength 0 and difficulty 0 was reviewed
\* a day after its last review, answered KNOW, and got the result of a
\* pristine item.
C19_Witness ==
  /\ Called
  /\ lastCall.strength = 0
  /\ lastCall.difficulty = 0
  /\ lastCall.days = TICKS_IN_DAY
  /\ lastCall.answerScore = KNOW
  /\ lastCall.result.newStrength > 1000000
  /\ lastCall.result.newDifficulty < 2000

\* other answer times, valid item lengths and streaks
OtherLengths == {1, 12}
OtherStreaks == {0, 1, 7}

\* the latest call repeated with the given answer time, item length and streak
sameCallBut(answerTime, itemLength, streak) ==
  getNewStateWithDefaults(lastCall.answerScore, answerTime, itemLength,
                          lastCall.strength, lastCall.days, lastCall.difficulty, streak)

\* C20 as stated: below score 1 the whole result is the same for every answer
\* time, item length and current streak; from score 1 on with less than a day
\* since the last review the new strength and difficulty are the same for
\* every current streak.
C20_Original ==
  Called =>
    /\ lastCall.answerScore < 1000 =>
         \A t \in AnswerTimes, l \in OtherLengths, k \in OtherStreaks :
           sameCallBut(t, l, k) = lastCall.result
    /\ (lastCall.answerScore >= 1000 /\ lastCall.days < 10000) =>
         \A k \in OtherStreaks :
           /\ sameCallBut(lastCall.answerTime, lastCall.itemLength, k).newStrength
                = lastCall.result.newStrength
           /\ sameCallBut(lastCall.answerTime, lastCall.itemLength, k).newDifficulty
                = lastCall.result.newDifficulty

\* C20 amended: below score 1, a call that the same-day guard does not
\* suppress has answer quality = answer score (speed score and streak bonus
\* are 0), resets the streak, and returns the same result for every answer
\* time, valid item length and current streak; a suppressed call returns the
\* same strength and difficulty for all of them and the current streak it
\* was given.  From score 1 on with less than a day since the last review
\* the new strength and difficulty are the same for every current streak.
C20_NoSpeedNoBonusBelowKnow ==
  Called =>
    /\ (lastCall.answerScore < 1000 /\ ~GuardCase) =>
         /\ lastCall.result.newStreak = 0
         /\ lastCall.result.newDifficulty =
              getDifficulty(CallDifficulty, lastCall.answerScore, 100)
         /\ lastCall.result.newStrength =
              getStrength(lastCall.answerScore, CallStrength, CallDifficulty, lastCall.days)
         /\ \A t \in AnswerTimes, l \in OtherLengths, k \in OtherStreaks :
              sameCallBut(t, l, k) = lastCall.result
    /\ (lastCall.answerScore < 1000 /\ GuardCase) =>
         \A t \in AnswerTimes, l \in OtherLengths, k \in OtherStreaks :
           sameCallBut(t, l, k) = [lastCall.result EXCEPT !.newStreak = k]
    /\ (lastCall.answerScore >= 1000 /\ lastCall.days < 10000) =>
         \A k \in OtherStreaks :
           /\ sameCallBut(lastCall.answerTime, lastCall.itemLength, k).newStrength
                = lastCall.result.newStrength
           /\ sameCallBut(lastCall.answerTime, lastCall.itemLength, k).newDifficulty
                = lastCall.result.newDifficulty

\* C20 witness: a fast CLUE answer on an item with a streak of 3, more than
\* 0.11 days after its last review, lowered the streak to 0 and raised the
\* difficulty by 0.05.
C20_Witness ==
  /\ Called
  /\ ~GuardCase
  /\ lastCall.answerScore = CLUE
  /\ lastCall.answerTime = 1000
  /\ lastCall.streak = 3
  /\ lastCall.difficulty = 2000
  /\ lastCall.result.newStreak = 0
  /\ lastCall.result.newDifficulty = 2050

(***************************************************************************)
(* Claims about the session logger                                         *)
(***************************************************************************)
\* the session has ended: "Study session completed!" or "Study session ended early."
sessionEnded == pc \in {"completed", "quit"}

\* C21: a study session with a non-empty working set has, when it ends (all
\* items reviewed, or the operator quit), called the logger's finalize
\* exactly once, with the final statistics and the outcome.  Checked under
\* Spec, where startStudySession makes no logger call at all: violated.
C21_FinalizedOnceAtEnd ==
  sessionEnded /\ stats.totalWords > 0
    => /\ finalizeCalls = 1
       /\ log.stats = << stats >>
       /\ log.outcome = << pc >>

\* earlier rows of log.reviews are kept, in place
earlierRowsKept ==
  /\ Len(log'.reviews) >= Len(log.reviews)
  /\ SubSeq(log'.reviews, 1, Len(log.reviews)) = log.reviews

\* at most one row is added, at the end
appendOnly ==
  /\ earlierRowsKept
  /\ Len(log'.reviews) <= Len(log.reviews) + 1

\* finalize has been called
finalized == finalizeCalls > 0

\* C22: the log is append-only (a logger operation adds at most one row at
\* the end of reviews and keeps the earlier rows) and immutable once
\* finalized (after finalize no logger operation changes the log or the
\* written document).  Checked under SpecLog: violated, the logger accepts
\* every operation after finalize.
C22_AppendOnlyAndImmutableOnceFinalized ==
  [][appendOnly /\ (finalized => log' = log /\ logFile' = logFile)]_vars

\* the part of C22 that the code keeps: reviews only grows at its end
logAppendOnly == [][appendOnly]_vars

\* a row was appended to a log holding a row already
logAppendReached == Len(log.reviews) = 2 /\ log.reviews[1].word # log.reviews[2].word

(***************************************************************************)
(* Claims about getForgetProbability, checked under SpecPriority           *)
(***************************************************************************)
\* the decay exponent of the probed item, in thousandths
probeExponent(p) == decayExponent(p.strength, p.difficulty, p.daysSinceLastReview)

checked == lastCheck'.checks = lastCheck.checks + 1

\* the latest check initialised the decay date or applied decay
initialisedOrApplied == lastCheck.outcome \in {"initialised", "applied"}

\* the latest check was made on the local calendar day of now
sameDayAsLastCheck == lastCheck.localDay = localDay(utcNow, tzOffset)

\* C24: overdue decay is applied at most once per calendar day.  Right
\* after a check that initialised the decay date or applied decay,
\* getDaysSinceLastDecay returns 0; a further check on the same day changes
\* no strength and does not rewrite the decay date; and a check changes a
\* strength only when the stored date is at least one day before today.
\* Checked under SpecDecay: violated, the date is written in UTC and read
\* back in local time, and a failed write of the date goes unnoticed.
C24_DecayOncePerDay ==
  [][checked =>
       /\ initialisedOrApplied' =>
            getDaysSinceLastDecay(decayFile', utcNow', tzOffset') = << 0 >>
       /\ initialisedOrApplied /\ sameDayAsLastCheck =>
            strengths' = strengths /\ decayFile' = decayFile
       /\ strengths' # strengths =>
            /\ decayFile # << >>
            /\ localDay(utcNow, tzOffset) - decayFile[1] >= 1]_vars

\* what remains of C24 where local time is UTC and the date is written
decayOncePerDayInUTC ==
  [][checked /\ tzOffset = 0 =>
       /\ initialisedOrApplied' /\ decayFile' = << utcDate(utcNow) >> =>
            getDaysSinceLastDecay(decayFile', utcNow', tzOffset') = << 0 >>
       /\ /\ initialisedOrApplied
          /\ sameDayAsLastCheck
          /\ decayFile = << utcDate(lastCheck.at) >>
          => strengths' = strengths /\ decayFile' = decayFile
       /\ strengths' # strengths =>
            /\ decayFile # << >>
            /\ localDay(utcNow, tzOffset) - decayFile[1] >= 1]_vars

\* in UTC a second check on the day of an applied decay has been made
decayTwiceCheckedReached ==
  /\ tzOffset = 0
  /\ lastCheck.checks >= 2
  /\ lastCheck.outcome = "nothing"
  /\ decayFile = << utcDate(utcNow) >>
  /\ strengths = << 98, 0, 0 >>

(***************************************************************************)
(* Claims about the migration scripts, checked under SpecMigrate           *)
(***************************************************************************)
\* a migration run is under way or was the last script run
migrating == run.kind = "migrate"

\* a backup file holds the content the run read from the data file
backupOfOriginalExists == \E name \in BackupNames : backups[name] = << run.raw >>

\* the run has ended in a failure before or during the write of the backup
failedUpToBackup == run.pc \in {"exited", "backup"} /\ run'.pc = "failed"

\* C25: a migration run overwrites the data file only after a backup with
\* the file's previous content was written.  Whenever a migration run has
\* changed the data file, a backup holding the content the run read
\* exists; a step of the run that fails before or during the write of the
\* backup leaves the data file as it was; and a dry run changes neither the
\* backups nor the data file.
C25_BackupBeforeOverwrite ==
  [][migrating' =>
       /\ dataFile' # << run'.raw >> => backupOfOriginalExists'
       /\ failedUpToBackup => dataFile' = dataFile
       /\ run'.dryRun => dataFile' = dataFile /\ backups' = backups]_vars

\* a migration has run to its end: the data file holds the migrated
\* content and the backup what the file held before
C25_Witness ==
  /\ migrating
  /\ run.pc = "exited"
  /\ ~run.dryRun
  /\ run.raw = << 1, 2 >>
  /\ dataFile = << << 11, 12 >> >>
  /\ backups[run.backupPath] = << << 1, 2 >> >>

(***************************************************************************)
(* Claims about reviews under the same-day guard, checked under SpecRecent *)
(***************************************************************************)
\* the review of the item presented falls under the same-day guard
guardSuppresses ==
  LET word == sessionWords[i + 1]
  IN sameDayGuard(Max(0, clock - word.memoryLastReviewed),
                  coerceStrength(word.memoryStrength),
                  coerceDifficulty(word.memoryDifficulty))

\* C26: a review that the same-day guard suppresses still writes
\* memoryLastReviewed = the time of the review to the repository, while
\* strength, difficulty and streak of the entry keep their old values.
C26_SuppressedReviewStampsLastReviewed ==
  [][~answered \/ ~guardSuppresses \/
     LET j == findIndexByWord(cache, sessionWords[i + 1].word)
     IN /\ cache'[j].memoryLastReviewed = clock
        /\ cache'[j].memoryStrength = cache[j].memoryStrength
        /\ cache'[j].memoryDifficulty = cache[j].memoryDifficulty
        /\ cache'[j].memoryStreak = cache[j].memoryStreak]_vars

\* an item last reviewed at the start was answered "know" a tick later:
\* its state is the old one, its memoryLastReviewed the time of the answer
C26_Witness ==
  /\ clock = StartClock + 1
  /\ stats.wordsReviewed = 1
  /\ stats.knowCount = 1
  /\ \E j \in 1..Len(cache) :
       /\ sessionWords[1].word = cache[j].word
       /\ sessionWords[1].memoryLastReviewed = StartClock
       /\ cache[j].memoryLastReviewed = StartClock + 1
       /\ cache[j].memoryStrength = 3500000
       /\ cache[j].memoryDifficulty = 1970
       /\ cache[j].memoryStreak = 2

(***************************************************************************)
(* Claims about the repository's operations, checked under SpecRepo        *)
(***************************************************************************)
\* the data store's save was called by the operation and failed
saveFailed(r) == r.saved = << FALSE >>

\* C27: when the data store's save fails during create, update or delete,
\* the operation returns success = false and the repository's in-memory
\* content is what it was before the operation.  Checked under SpecRepo:
\* violated, the three operations change the cache before they save.
C27_FailedSaveLeavesCacheAlone ==
  [][saveFailed(lastResult') => ~lastResult'.success /\ cache' = cache]_vars

\* the part of C27 that the code keeps: a failed save is reported
failedSaveReported == [][saveFailed(lastResult') => ~lastResult'.success]_vars

\* a create whose save failed left its entry in the cache
failedSaveReached ==
  /\ lastResult.op = "create"
  /\ saveFailed(lastResult)
  /\ ~lastResult.success
  /\ Len(cache) = Len(file) + 1

(***************************************************************************)
(* Claims about sortByPriority and positions, checked under Spec           *)
(***************************************************************************)
\* an item of sortByPriority's result without the priority attached to it
withoutPriority(item) == Vocab(item.word, item)

\* the number of positions of a sequence that hold x
countIn(items, x) == Cardinality({k \in 1..Len(items) : items[k] = x})

\* sorted holds the items of input, each as often as input does, and each
\* with the priority calculatePriority attaches to it
permutationWithPriorities(input, sorted, now) ==
  LET bare == [k \in 1..Len(sorted) |-> withoutPriority(sorted[k])]
  IN /\ Len(sorted) = Len(input)
     /\ \A k \in 1..Len(input) : countIn(bare, input[k]) = countIn(input, input[k])
     /\ \A k \in 1..Len(sorted) : sorted[k].priority = priorityOf(bare[k], now)

\* the repository holds the same words at the same positions
samePositions ==
  /\ Len(cache') = Len(cache)
  /\ \A k \in 1..Len(cache) : cache'[k].word = cache[k].word

\* C28: sortByPriority returns a permutation of its input (the same items
\* with the same multiplicity, each with its priority attached; shown on
\* the repository's items, taken twice, where startStudySession sorts);
\* choosing the working set leaves the repository as it was; and no step
\* of a session changes the position of an item in the repository.
C28_SortIsPermutationPositionsKept ==
  /\ [](pc \notin {"idle", "begin"} \/
        LET input == cache \o cache
        IN permutationWithPriorities(input, sortByPriority(input, clock), clock))
  /\ [][/\ samePositions
        /\ pc = "idle" => cache' = cache /\ file' = file]_vars

\* a session on two items has reviewed both, the one of higher priority
\* first although it stands second in the repository, and the repository
\* holds them where they stood
C28_Witness ==
  /\ pc = "completed"
  /\ Len(cache) = 2
  /\ Len(sessionWords) = 2
  /\ sessionWords[1].word = 2
  /\ sessionWords[1].priority > sessionWords[2].priority
  /\ cache[1].word = 1
  /\ cache[2].word = 2
  /\ cache[1] # atSessionStart(2)
  /\ cache[2] # atSessionStart(1)

(***************************************************************************)
(* Claims about the end of a study session, checked under FairSpec         *)
(***************************************************************************)
\* the clue level changes by one escalation, or by the reset to 0 made
\* when an item is entered
escalationOrNewItem ==
  clueLevel' # clueLevel =>
    \/ clueLevel' = clueLevel + 1 /\ i' = i /\ pc' = "reviewing" /\ pc = "reviewing"
    \/ clueLevel' = 0 /\ (i' = i + 1 \/ pc = "begin")

\* C29: a study session whose operator eventually gives a terminal choice
\* for each presented item ends; the clue level of an item stays within
\* 0..2 and only moves up by one step at a time, so at most 2 escalations
\* take effect per item; wordsReviewed never exceeds totalWords; and the
\* session ends completed exactly when wordsReviewed = totalWords, and as
\* quit with fewer items reviewed otherwise.
C29_SessionTerminates ==
  /\ (pc = "reviewing") ~> sessionEnded
  /\ [](/\ clueLevel \in 0..2
        /\ stats.wordsReviewed <= stats.totalWords
        /\ pc = "reviewing" => stats.wordsReviewed = i /\ i < stats.totalWords
        /\ pc = "completed" => stats.wordsReviewed = stats.totalWords
        /\ pc = "quit" => stats.wordsReviewed < stats.totalWords)
  /\ [][escalationOrNewItem]_vars

\* a session on two items was completed, the last item after two clues
C29_Witness ==
  /\ pc = "completed"
  /\ stats.totalWords = 2
  /\ stats.wordsReviewed = 2
  /\ clueLevel = 2
  /\ stats.cluesCount >= 1

\* a session on two items was quit after one review
sessionQuitReached ==
  /\ pc = "quit"
  /\ stats.totalWords = 2
  /\ stats.wordsReviewed = 1

====
